---- MODULE Spec2Model ----
(***************************************************************************)
(* Model of the WordPress -> Supabase migration scripts of osteojob:       *)
(*   scripts/bulk-upload-users.js      (Bulk Loader, uuid v5 ids)          *)
(*   scripts/upload-users-to-supabase.js (per-user loader, uuid v4 ids)    *)
(*   scripts/README.md importData      (job import)                        *)
(*   update-job-posters (unnamed/part_006)  direct-id / fuzzy reconciler   *)
(*   scripts/update-jobs-by-email.js   email reconciler                    *)
(* JavaScript strings are sequences of one-character strings, so that      *)
(* toLowerCase, trim and the whitespace collapse are computed, not assumed.*)
(***************************************************************************)
EXTENDS Integers, Sequences, FiniteSets, TLC

(***************************************************************************)
(* JavaScript values                                                       *)
(***************************************************************************)
\* null / undefined (a value no string, id or record of the model equals)
NULL == <<"<null>">>

EmptyStr == <<>>

\* JSON number n and JSON string "n": the legacy ids come in both forms
Num(n) == <<"num", n>>
Str(n) == <<"str", n>>

\* v.toString() for a legacy id
JsToString(v) == Str(v[2])

\* !v
Falsy(v) == v = NULL \/ v = EmptyStr \/ v = Num(0)

\* a || b
OrElse(a, b) == IF Falsy(a) THEN b ELSE a

WhitespaceChars == {" ", "\t"}

UpperChars == <<"A", "B", "C", "D", "E", "H", "J", "K", "L", "M", "N", "O", "P", "U", "X">>
LowerChars == <<"a", "b", "c", "d", "e", "h", "j", "k", "l", "m", "n", "o", "p", "u", "x">>

ToLowerChar(c) ==
    IF \E i \in DOMAIN UpperChars : UpperChars[i] = c
    THEN LowerChars[CHOOSE i \in DOMAIN UpperChars : UpperChars[i] = c]
    ELSE c

\* String.prototype.toLowerCase
ToLowerCase(s) == [i \in DOMAIN s |-> ToLowerChar(s[i])]

RECURSIVE TrimStart(_)
TrimStart(s) ==
    IF s = <<>> THEN s
    ELSE IF Head(s) \in WhitespaceChars THEN TrimStart(Tail(s)) ELSE s

RECURSIVE TrimEnd(_)
TrimEnd(s) ==
    IF s = <<>> THEN s
    ELSE IF s[Len(s)] \in WhitespaceChars THEN TrimEnd(SubSeq(s, 1, Len(s) - 1)) ELSE s

\* String.prototype.trim
Trim(s) == TrimEnd(TrimStart(s))

\* s.replace(/\s+/g, ' ')
RECURSIVE CollapseSpaces(_)
CollapseSpaces(s) ==
    IF s = <<>> THEN s
    ELSE IF Head(s) \in WhitespaceChars
         THEN <<" ">> \o CollapseSpaces(TrimStart(s))
         ELSE <<Head(s)>> \o CollapseSpaces(Tail(s))

\* array.filter(pred) over a sequence, order kept
RECURSIVE SelectIdx(_, _, _)
SelectIdx(s, keep, i) ==
    IF i > Len(s) THEN <<>>
    ELSE (IF i \in keep THEN <<s[i]>> ELSE <<>>) \o SelectIdx(s, keep, i + 1)

\* all orderings of a finite set (the order a table read without ORDER BY returns)
RECURSIVE Orderings(_)
Orderings(S) ==
    IF S = {} THEN {<<>>}
    ELSE UNION {{<<x>> \o t : t \in Orderings(S \ {x})} : x \in S}

Range(s) == {s[i] : i \in DOMAIN s}

Min(a, b) == IF a < b THEN a ELSE b

(***************************************************************************)
(* Identifiers                                                             *)
(***************************************************************************)
PLACEHOLDER_EMPLOYER_UUID == <<"uuid", "00000000-0000-0000-0000-000000000001">>

NAMESPACE_WORDPRESS == "6ba7b810-9dad-11d1-80b4-00c04fd430c8"

\* uuid v5: a name-based hash, a function of (name, namespace) and nothing else
uuidv5(name, namespace) == <<"uuid5", namespace, name>>

\* uuid v4: random; the k-th draw of the process differs from every other draw
uuidv4(k) == <<"uuid4", k>>

EMPLOYER_ROLE == "wp_job_board_pro_employer"

(***************************************************************************)
(* Bounds of the model                                                     *)
(***************************************************************************)
\* users per upsert batch in the model (the scripts use 100)
BatchBound == 2

\* longest users file
MaxUsers == 3

(***************************************************************************)
(* State                                                                   *)
(***************************************************************************)
VARIABLES
    usersFile,        \* osteojob-users.json: File(legacy users) or BadFile
    jobsFile,         \* osteojob-jobs.json: File(legacy jobs) or BadFile
    mappingFile,      \* osteojob-job-user-mapping.json: File(entries) or BadFile
    faults,           \* whether the store may reject a request for reasons of its own
    hasPosterId,      \* whether the jobs table has a poster_id column
    profiles,         \* table profiles: a set of rows (id and email are unique)
    jobs,             \* table jobs: a set of rows
    plan,             \* the scripts the operator still runs, in order
    script,           \* the script that is running, or "idle"
    pc,               \* where the running script is
    idx,              \* batches / records the running script has done
    stats,            \* the running script's stats object
    exitCode,         \* exit status of the last script that ended (NULL before)
    runLog,           \* one entry per script run that ended
    allProfiles,      \* reconciler: profiles as loaded
    allSupabaseJobs,  \* reconciler: jobs as loaded
    cacheMap,         \* reconciler: wpIdToUuidMap / emailToUuidMap
    work,             \* the records the running script loops over
    uuidSeq,          \* number of uuid v4 draws so far
    jobSeq,           \* number of job rows the store has created ids for
    last,             \* what the last record-processing step did
    idLog,            \* every (loader, legacy id, profile id) a transformUser call produced
    pageLog,          \* the page requests of the running script's table loads
    storeErrs         \* errors the store has answered since the first script

inputs == <<usersFile, jobsFile, mappingFile, faults, hasPosterId>>
store == <<profiles, jobs>>
loaded == <<allProfiles, allSupabaseJobs, cacheMap, work>>
fresh == <<uuidSeq, jobSeq>>
vars == <<usersFile, jobsFile, mappingFile, faults, hasPosterId, profiles, jobs,
          plan, script, pc, idx, stats, exitCode, runLog,
          allProfiles, allSupabaseJobs, cacheMap, work, uuidSeq, jobSeq, last, idLog,
          pageLog, storeErrs>>

\* a JSON file holding the array rows, and a file that is missing or is not JSON
File(rows) == [ok |-> TRUE, rows |-> rows]
BadFile == [ok |-> FALSE, rows |-> <<>>]

\* a registration date that new Date() cannot parse
BadDate == <<"<bad date>">>

\* 'YYYY-MM-DD HH:MM:SS' naming second t
WpDate(t) == <<"wpdate", t>>

\* new Date().toISOString()
Now == <<"now">>

\* an exit that logs the run and leaves the script running
ExitLeftRunning(code) ==
    /\ script' = (IF script = "idle" THEN Head(plan) ELSE script)
    /\ pc' = "done"
    /\ exitCode' = code
    /\ runLog' = Append(runLog, [script |-> IF script = "idle" THEN Head(plan) ELSE script,
                                 exit |-> code, stats |-> stats',
                                 nProfiles |-> Cardinality(profiles'),
                                 storeErrs |-> storeErrs',
                                 jobs |-> jobs',
                                 loadedProfiles |-> allProfiles',
                                 loadedJobs |-> allSupabaseJobs'])

\* process.exit(code), or the script returning (code 0): the run is over
Exit(code) ==
    /\ script' = "idle"
    /\ pc' = "done"
    /\ exitCode' = code
    /\ runLog' = Append(runLog, [script |-> IF script = "idle" THEN Head(plan) ELSE script,
                                 exit |-> code, stats |-> stats',
                                 nProfiles |-> Cardinality(profiles'),
                                 storeErrs |-> storeErrs',
                                 jobs |-> jobs',
                                 loadedProfiles |-> allProfiles',
                                 loadedJobs |-> allSupabaseJobs'])

\* a summary that never ends the process with status 1
SummaryExitCodeAlwaysZero(st) == 0

\* the end of a script's summary: process.exit(1) if stats.errors > 0, else the
\* script returns and node exits 0
SummaryExitCode(st) == IF st.errors > 0 THEN 1 ELSE 0

\* the operator starts the next script of the plan
Launch(name) ==
    /\ script = "idle"
    /\ plan # <<>>
    /\ Head(plan) = name
    /\ plan' = Tail(plan)

(***************************************************************************)
(* The profiles table                                                      *)
(***************************************************************************)
\* a row of profiles from an insert/upsert payload: absent columns are null
ProfileRow(r) ==
    [id |-> r.id, email |-> r.email, full_name |-> r.full_name,
     user_type |-> r.user_type, created_at |-> r.created_at,
     wordpress_user_id |-> IF "wordpress_user_id" \in DOMAIN r
                           THEN r.wordpress_user_id ELSE NULL]

\* ON CONFLICT (email) DO UPDATE: the payload's columns overwrite the row's
MergeRow(p, r) == [c \in DOMAIN p |-> IF c \in DOMAIN r THEN r[c] ELSE p[c]]

\* .upsert(rows, {onConflict: 'email', ignoreDuplicates: false}): one statement,
\* all rows or none. err is "none", "21000" (the statement touches a row twice)
\* or "23505" (primary key profiles.id violated).
RECURSIVE UpsertRows(_, _, _)
UpsertRows(P, rows, i) ==
    IF i > Len(rows) THEN [err |-> "none", table |-> P]
    ELSE LET r == rows[i]
             hit == {p \in P : p.email = r.email}
         IN IF hit # {}
            THEN LET p == CHOOSE p \in hit : TRUE
                 IN IF \E q \in P \ {p} : q.id = r.id
                    THEN [err |-> "23505", table |-> P]
                    ELSE UpsertRows((P \ {p}) \cup {MergeRow(p, r)}, rows, i + 1)
            ELSE IF \E q \in P : q.id = r.id
                 THEN [err |-> "23505", table |-> P]
                 ELSE UpsertRows(P \cup {ProfileRow(r)}, rows, i + 1)

UpsertProfiles(P, rows) ==
    IF \E i, j \in DOMAIN rows : i < j /\ rows[i].email = rows[j].email
    THEN [err |-> "21000", table |-> P]
    ELSE LET res == UpsertRows(P, rows, 1)
         IN IF res.err = "none" THEN res ELSE [err |-> res.err, table |-> P]

\* .insert([row]): unique violation on profiles.id or profiles.email
InsertProfile(P, r) ==
    IF \E q \in P : q.id = r.id \/ q.email = r.email
    THEN [err |-> "23505", table |-> P]
    ELSE [err |-> "none", table |-> P \cup {ProfileRow(r)}]

\* what the store may answer to a write whose own outcome is res
Answers(res) == {res.err} \cup (IF faults THEN {"error", "throw"} ELSE {})

(***************************************************************************)
(* transformUser                                                           *)
(***************************************************************************)
\* roles.includes(tag)
Includes(roles, tag) == \E i \in DOMAIN roles : roles[i] = tag

\* a role test that looks at the first role only
UserTypeFirstRole(wpUser) ==
    LET roles == IF Falsy(wpUser.roles) THEN <<>> ELSE wpUser.roles
    IN IF roles # <<>> /\ roles[1] = EMPLOYER_ROLE THEN "employer" ELSE "candidate"

UserType(wpUser) ==
    LET roles == IF Falsy(wpUser.roles) THEN <<>> ELSE wpUser.roles
    IN IF Includes(roles, EMPLOYER_ROLE) THEN "employer" ELSE "candidate"

\* a user without meta object, or with one that has neither name: both read as
\* undefined
NoMeta == [first_name |-> NULL, last_name |-> NULL]

\* wpUser.meta?.[field]
MetaField(wpUser, field) == wpUser.meta[field]

\* a name that prefers the username to the display name
FullNameUsernameFirst(wpUser) ==
    LET firstName == OrElse(OrElse(wpUser.first_name, MetaField(wpUser, "first_name")), EmptyStr)
        lastName == OrElse(OrElse(wpUser.last_name, MetaField(wpUser, "last_name")), EmptyStr)
    IN OrElse(OrElse(Trim(firstName \o <<" ">> \o lastName), wpUser.username),
              wpUser.display_name)

\* fullName: `${firstName} ${lastName}`.trim() || display_name || username
FullName(wpUser) ==
    LET firstName == OrElse(OrElse(wpUser.first_name, MetaField(wpUser, "first_name")), EmptyStr)
        lastName == OrElse(OrElse(wpUser.last_name, MetaField(wpUser, "last_name")), EmptyStr)
    IN OrElse(OrElse(Trim(firstName \o <<" ">> \o lastName), wpUser.display_name),
              wpUser.username)

\* bulk-upload-users.js: new Date(registered.replace(' ', 'T')).toISOString()
\* throws RangeError on a date that does not parse
BulkTransformThrows(wpUser) == wpUser.registered = BadDate

\* an id hashed from the e-mail instead of the legacy id
BulkTransformUserIdFromEmail(wpUser) ==
    [id |-> uuidv5(<<"wp-user-", wpUser.email>>, NAMESPACE_WORDPRESS),
     email |-> wpUser.email,
     full_name |-> FullName(wpUser),
     user_type |-> UserType(wpUser),
     created_at |-> IF Falsy(wpUser.registered) THEN Now
                    ELSE <<"local", wpUser.registered>>]

\* an e-mail column filled per legacy id instead of from the user's e-mail
BulkTransformUserEmailPerId(wpUser) ==
    [id |-> uuidv5(<<"wp-user-", JsToString(wpUser.id)>>, NAMESPACE_WORDPRESS),
     email |-> wpUser.email \o <<"+">> \o JsToString(wpUser.id),
     full_name |-> FullName(wpUser),
     user_type |-> UserType(wpUser),
     created_at |-> IF Falsy(wpUser.registered) THEN Now
                    ELSE <<"local", wpUser.registered>>]

\* a row that also records the legacy id
BulkTransformUserWithLegacyId(wpUser) ==
    [id |-> uuidv5(<<"wp-user-", JsToString(wpUser.id)>>, NAMESPACE_WORDPRESS),
     wordpress_user_id |-> JsToString(wpUser.id),
     email |-> wpUser.email,
     full_name |-> FullName(wpUser),
     user_type |-> UserType(wpUser),
     created_at |-> IF Falsy(wpUser.registered) THEN Now
                    ELSE <<"local", wpUser.registered>>]

BulkTransformUser(wpUser) ==
    [id |-> uuidv5(<<"wp-user-", JsToString(wpUser.id)>>, NAMESPACE_WORDPRESS),
     email |-> wpUser.email,
     full_name |-> FullName(wpUser),
     user_type |-> UserType(wpUser),
     created_at |-> IF Falsy(wpUser.registered) THEN Now
                    ELSE <<"local", wpUser.registered>>]

\* upload-users-to-supabase.js: the k-th uuid v4 of the process; a date that does
\* not parse is caught and the current time kept
UploadTransformUser(wpUser, k) ==
    [id |-> uuidv4(k),
     wordpress_user_id |-> JsToString(wpUser.id),
     email |-> wpUser.email,
     full_name |-> FullName(wpUser),
     user_type |-> UserType(wpUser),
     created_at |-> IF Falsy(wpUser.registered) \/ wpUser.registered = BadDate THEN Now
                    ELSE <<"utc", wpUser.registered>>]

(***************************************************************************)
(* bulk-upload-users.js                                                    *)
(***************************************************************************)
BATCH_SIZE == BatchBound

\* Math.ceil(users.length / BATCH_SIZE)
TotalBatches(users) == (Len(users) + BATCH_SIZE - 1) \div BATCH_SIZE

\* users.slice(start, end) of batch i (0-based)
Batch(users, i) == SubSeq(users, i * BATCH_SIZE + 1, Min(i * BATCH_SIZE + BATCH_SIZE, Len(users)))

BulkStats == [total |-> 0, inserted |-> 0, duplicates |-> 0, errors |-> 0]

\* uploadUsers, up to the loop
BulkStart ==
    /\ Launch("bulk")
    /\ idx' = 0
    /\ UNCHANGED <<inputs, store, loaded, fresh, last, idLog, pageLog, storeErrs>>
    /\ IF ~usersFile.ok
       THEN /\ stats' = BulkStats
            /\ Exit(1)
       ELSE /\ stats' = [BulkStats EXCEPT !.total = Len(usersFile.rows)]
            /\ script' = "bulk"
            /\ pc' = "batches"
            /\ UNCHANGED <<exitCode, runLog>>

\* the stats after insertBatch got answer ans for n users
BulkCount(st, ans, n) ==
    IF ans = "none" THEN [st EXCEPT !.inserted = @ + n]
    ELSE IF ans = "23505" THEN [st EXCEPT !.duplicates = @ + n]
    ELSE [st EXCEPT !.errors = @ + n]

\* one pass of the loop of uploadUsers: insertBatch on the next batch
BulkBatch ==
    /\ script = "bulk" /\ pc = "batches"
    /\ idx < TotalBatches(usersFile.rows)
    /\ UNCHANGED <<inputs, loaded, fresh>>
    /\ LET batch == Batch(usersFile.rows, idx)
           rows == [i \in DOMAIN batch |-> BulkTransformUser(batch[i])]
           res == UpsertProfiles(profiles, rows)
       IN IF \E i \in DOMAIN batch : BulkTransformThrows(batch[i])
          THEN \* users.map(transformUser) is outside the try: the rejection reaches
               \* uploadUsers().catch, which exits 1
               /\ UNCHANGED <<store, stats, idx, last, idLog, pageLog, storeErrs, plan>>
               /\ Exit(1)
          ELSE \E ans \in Answers(res) :
               /\ profiles' = IF ans = "none" THEN res.table ELSE profiles
               /\ stats' = BulkCount(stats, ans, Len(batch))
               /\ storeErrs' = IF ans = "none" THEN storeErrs ELSE storeErrs + 1
               /\ idx' = idx + 1
               /\ last' = [kind |-> "transform",
                           items |-> [i \in DOMAIN batch |-> [user |-> batch[i], row |-> rows[i]]]]
               /\ idLog' = idLog \cup {[loader |-> "bulk", wpid |-> JsToString(batch[i].id),
                                        id |-> rows[i].id] : i \in DOMAIN batch}
               /\ UNCHANGED <<jobs, plan, script, pc, exitCode, runLog, pageLog>>

\* the summary and the exit status
BulkSummary ==
    /\ script = "bulk" /\ pc = "batches"
    /\ idx = TotalBatches(usersFile.rows)
    /\ UNCHANGED <<inputs, store, loaded, fresh, last, idLog, pageLog, storeErrs, stats, idx, plan>>
    /\ Exit(SummaryExitCode(stats))

(***************************************************************************)
(* upload-users-to-supabase.js                                             *)
(***************************************************************************)
UploadStats == [total |-> 0, inserted |-> 0, updated |-> 0, skipped |-> 0, errors |-> 0]

UploadStart ==
    /\ Launch("upload")
    /\ idx' = 0
    /\ UNCHANGED <<inputs, store, loaded, fresh, last, idLog, pageLog, storeErrs>>
    /\ IF ~usersFile.ok
       THEN /\ stats' = UploadStats
            /\ Exit(1)
       ELSE /\ stats' = [UploadStats EXCEPT !.total = Len(usersFile.rows)]
            /\ script' = "upload"
            /\ pc' = "users"
            /\ UNCHANGED <<exitCode, runLog>>

\* .or(`email.eq.X,wordpress_user_id.eq.Y`).limit(1).single()
ExistingProfile(P, t) ==
    \E p \in P : p.email = t.email \/ p.wordpress_user_id = t.wordpress_user_id

\* insertUser on the next user (processBatch only groups the calls and prints)
UploadUser ==
    /\ script = "upload" /\ pc = "users"
    /\ idx < Len(usersFile.rows)
    /\ LET u == usersFile.rows[idx + 1]
           t == UploadTransformUser(u, uuidSeq + 1)
           res == InsertProfile(profiles, t)
       IN \E chk \in {"none"} \cup (IF faults THEN {"error", "throw"} ELSE {}) :
          \E ans \in Answers(res) :
            LET existing == chk = "none" /\ ExistingProfile(profiles, t)
                inserts == chk # "throw" /\ ~existing
                failed == (IF chk = "none" THEN 0 ELSE 1)
                          + (IF inserts /\ ans # "none" THEN 1 ELSE 0)
            IN /\ ~inserts => ans = res.err
               /\ profiles' = IF inserts /\ ans = "none" THEN res.table ELSE profiles
               /\ stats' = IF chk = "throw" THEN [stats EXCEPT !.errors = @ + 1]
                           ELSE IF existing THEN [stats EXCEPT !.skipped = @ + 1]
                           ELSE IF ans = "none" THEN [stats EXCEPT !.inserted = @ + 1]
                           ELSE IF ans = "23505" THEN [stats EXCEPT !.skipped = @ + 1]
                           ELSE [stats EXCEPT !.errors = @ + 1]
               /\ storeErrs' = storeErrs + failed
               /\ last' = [kind |-> "transform", items |-> <<[user |-> u, row |-> t]>>]
               /\ idLog' = idLog \cup {[loader |-> "upload", wpid |-> JsToString(u.id),
                                        id |-> t.id]}
    /\ uuidSeq' = uuidSeq + 1
    /\ idx' = idx + 1
    /\ UNCHANGED <<inputs, jobs, loaded, jobSeq, plan, script, pc, exitCode, runLog, pageLog>>

UploadSummary ==
    /\ script = "upload" /\ pc = "users"
    /\ idx = Len(usersFile.rows)
    /\ UNCHANGED <<inputs, store, loaded, fresh, last, idLog, pageLog, storeErrs, stats, idx, plan>>
    /\ Exit(SummaryExitCode(stats))

(***************************************************************************)
(* The jobs table                                                          *)
(***************************************************************************)
\* a timestamptz value: milliseconds since the epoch
Ts(ms) == <<"ts", ms>>

\* the store's reading of a 'YYYY-MM-DD HH:MM:SS' text as a timestamp (UTC session)
ToTimestamp(d) == IF Falsy(d) THEN NULL ELSE Ts(d[2] * 1000)

\* the id the store generates for the k-th job row
JobId(k) == <<"job", k>>

\* jobs.employer_id references profiles.id (the pages embed profiles!employer_id)
ForeignKeyOk(P, ref) == ref = NULL \/ \E p \in P : p.id = ref

\* .insert(jobData) into jobs
InsertJob(J, P, k, d) ==
    IF d.posted_date = BadDate THEN [err |-> "22007", table |-> J]
    ELSE IF ~ForeignKeyOk(P, d.employer_id) THEN [err |-> "23503", table |-> J]
    ELSE [err |-> "none",
          table |-> J \cup {[id |-> JobId(k), employer_id |-> d.employer_id, poster_id |-> NULL,
                             title |-> d.title, location_country |-> d.location_country,
                             location_city |-> d.location_city,
                             posted_date |-> ToTimestamp(d.posted_date),
                             wordpress_job_id |-> d.wordpress_job_id]}]

\* an update with no filter on the id: every row gets the payload's columns
UpdateEveryJobRow(J, jobId, payload) ==
    {[c \in DOMAIN j |-> IF c \in DOMAIN payload THEN payload[c] ELSE j[c]] : j \in J}

\* .update(payload).eq('id', jobId) on jobs: the row with the payload's columns set
UpdateJobRow(J, jobId, payload) ==
    {IF j.id = jobId THEN [c \in DOMAIN j |-> IF c \in DOMAIN payload THEN payload[c] ELSE j[c]]
     ELSE j : j \in J}

\* what the store itself answers to that update: "poster" is the error naming the
\* missing poster_id column
UpdateJobAnswer(P, payload) ==
    IF "poster_id" \in DOMAIN payload /\ ~hasPosterId THEN "poster"
    ELSE IF ~ForeignKeyOk(P, payload.employer_id) THEN "23503"
    ELSE "none"

\* every answer an update may get: the store's own, or (faults) an error, a thrown
\* exception, or no error and no row returned
UpdateAnswers(own) == {own} \cup (IF faults THEN {"error", "throw", "empty"} ELSE {})

\* .upsert(row, {onConflict: 'id'}) into profiles
UpsertProfileById(P, r) ==
    IF \E q \in P : q.id # r.id /\ q.email = r.email
    THEN [err |-> "23505", table |-> P]
    ELSE IF \E p \in P : p.id = r.id
         THEN [err |-> "none",
               table |-> {IF p.id = r.id THEN MergeRow(p, r) ELSE p : p \in P}]
         ELSE [err |-> "none", table |-> P \cup {ProfileRow(r)}]

(***************************************************************************)
(* importData (scripts/README.md): the job import                          *)
(***************************************************************************)
DefaultEmployerEmail == <<"e", "m", "p", "@", "o">>

DefaultEmployerRow ==
    [id |-> PLACEHOLDER_EMPLOYER_UUID, email |-> DefaultEmployerEmail,
     full_name |-> <<"O", "J">>, user_type |-> "employer", created_at |-> Now]

\* userMapping[job.author_id] after usersData.forEach(user => userMapping[user.id] = default)
UserMapping(users, authorId) ==
    IF authorId # NULL /\ \E i \in DOMAIN users : JsToString(users[i].id) = JsToString(authorId)
    THEN PLACEHOLDER_EMPLOYER_UUID
    ELSE NULL

DEFAULT_COUNTRY == <<"U", "K">>

\* jobData of importData, the columns the reconcilers read
JobData(job, employerId) ==
    [employer_id |-> employerId,
     title |-> job.title,
     location_country |-> IF Len(job.locations) > 0 /\ ~Falsy(job.locations[1])
                          THEN job.locations[1] ELSE DEFAULT_COUNTRY,
     location_city |-> OrElse(job.city, NULL),
     posted_date |-> job.date_posted,
     wordpress_job_id |-> job.id]

ImportStats == [imported |-> 0]

\* importData up to the loop: both files read, the default employer upserted
ImportStart ==
    /\ Launch("import")
    /\ idx' = 0
    /\ stats' = ImportStats
    /\ UNCHANGED <<inputs, jobs, loaded, fresh, last, idLog, pageLog>>
    /\ IF ~jobsFile.ok \/ ~usersFile.ok
       THEN \* the catch prints "Import failed" and importData returns
            /\ UNCHANGED <<profiles, storeErrs>>
            /\ Exit(0)
       ELSE \E ans \in Answers(UpsertProfileById(profiles, DefaultEmployerRow)) :
            /\ profiles' = IF ans = "none"
                           THEN UpsertProfileById(profiles, DefaultEmployerRow).table
                           ELSE profiles
            /\ storeErrs' = IF ans = "none" THEN storeErrs ELSE storeErrs + 1
            /\ IF ans = "throw"
               THEN Exit(0)
               ELSE /\ script' = "import"
                    /\ pc' = "jobs"
                    /\ UNCHANGED <<exitCode, runLog>>

\* one pass of the loop over jobsData
ImportJob ==
    /\ script = "import" /\ pc = "jobs"
    /\ idx < Len(jobsFile.rows)
    /\ UNCHANGED <<inputs, loaded, uuidSeq, idLog, pageLog>>
    /\ LET job == jobsFile.rows[idx + 1]
           employerId == UserMapping(usersFile.rows, job.author_id)
           res == InsertJob(jobs, profiles, jobSeq + 1, JobData(job, employerId))
       IN IF employerId = NULL
          THEN /\ idx' = idx + 1
               /\ last' = [kind |-> "import", job |-> job, written |-> FALSE, employer_id |-> NULL]
               /\ UNCHANGED <<store, jobSeq, stats, storeErrs, plan, script, pc, exitCode, runLog>>
          ELSE \E ans \in Answers(res) :
               /\ jobs' = IF ans = "none" THEN res.table ELSE jobs
               /\ jobSeq' = IF ans = "none" THEN jobSeq + 1 ELSE jobSeq
               /\ stats' = IF ans = "none" THEN [stats EXCEPT !.imported = @ + 1] ELSE stats
               /\ storeErrs' = IF ans = "none" THEN storeErrs ELSE storeErrs + 1
               /\ last' = [kind |-> "import", job |-> job, written |-> ans = "none",
                           employer_id |-> employerId]
               /\ idx' = idx + 1
               /\ UNCHANGED <<profiles, plan>>
               /\ IF ans = "throw"
                  THEN Exit(0)
                  ELSE UNCHANGED <<script, pc, exitCode, runLog>>

\* the summary; importData returns and node exits 0
ImportSummary ==
    /\ script = "import" /\ pc = "jobs"
    /\ idx = Len(jobsFile.rows)
    /\ UNCHANGED <<inputs, store, loaded, fresh, last, idLog, pageLog, storeErrs, stats, idx, plan>>
    /\ Exit(0)

(***************************************************************************)
(* Update WordPress user ids (second script of bulk-upload-users.js)       *)
(***************************************************************************)
\* normalizeEmail
normalizeEmail(email) == IF Falsy(email) THEN EmptyStr ELSE Trim(ToLowerCase(email))

\* wpUsersByEmail.get(email): the last user of the file with that normalized e-mail,
\* as an index of users (0: none)
WpUserByEmail(users, email) ==
    LET hits == {i \in DOMAIN users : normalizeEmail(users[i].email) # EmptyStr
                                      /\ normalizeEmail(users[i].email) = email}
    IN IF hits = {} THEN 0 ELSE CHOOSE i \in hits : \A j \in hits : j <= i

\* for (const profile of profiles), from the k-th loaded profile on: a profile
\* whose e-mail a legacy user has and whose wordpress_user_id is not that user's
\* id is pushed on updates with the user
RECURSIVE PendingUpdatesFrom(_, _, _)
PendingUpdatesFrom(users, loadedProfiles, k) ==
    IF k > Len(loadedProfiles) THEN <<>>
    ELSE (IF \E u \in {WpUserByEmail(users, normalizeEmail(loadedProfiles[k].email))} :
                /\ u # 0
                /\ loadedProfiles[k].wordpress_user_id # JsToString(users[u].id)
          THEN <<[profile |-> loadedProfiles[k],
                  wpUser |-> users[WpUserByEmail(users,
                                                 normalizeEmail(loadedProfiles[k].email))]]>>
          ELSE <<>>) \o PendingUpdatesFrom(users, loadedProfiles, k + 1)

\* a loop that takes every matched profile, whatever its wordpress_user_id
RECURSIVE EveryMatchFrom(_, _, _)
EveryMatchFrom(users, loadedProfiles, k) ==
    IF k > Len(loadedProfiles) THEN <<>>
    ELSE (IF WpUserByEmail(users, normalizeEmail(loadedProfiles[k].email)) # 0
          THEN <<[profile |-> loadedProfiles[k],
                  wpUser |-> users[WpUserByEmail(users,
                                                 normalizeEmail(loadedProfiles[k].email))]]>>
          ELSE <<>>) \o EveryMatchFrom(users, loadedProfiles, k + 1)

\* an updates array of every matched profile
PendingUpdatesOfEveryMatch(users, loadedProfiles) == EveryMatchFrom(users, loadedProfiles, 1)

\* the updates array: matched profiles whose wordpress_user_id is not yet the user's
PendingUpdates(users, loadedProfiles) == PendingUpdatesFrom(users, loadedProfiles, 1)

\* rows per page of a table load
PageBound == 2

\* pageSize (1000 in the scripts)
pageSize == PageBound

\* .range(from, to) over a table that the store retrieves in this order: rows
\* from..to, counted from 0, both ends included
RangeOf(order, from, to) == SubSeq(order, from + 1, Min(to + 1, Len(order)))

\* a loop whose ranges share their end row with the next page's first
RECURSIVE loadAllFromOverlapping(_, _, _, _)
loadAllFromOverlapping(order, page, acc, requests) ==
    LET from == page * (pageSize - 1)
        to == (page + 1) * (pageSize - 1)
        data == RangeOf(order, from, to)
        asked == Append(requests, [from |-> from, to |-> to, got |-> Len(data)])
    IN IF Len(data) = 0 THEN [rows |-> acc, requests |-> asked]
       ELSE IF Len(data) < pageSize THEN [rows |-> acc \o data, requests |-> asked]
       ELSE loadAllFromOverlapping(order, page + 1, acc \o data, asked)

\* a load with those ranges
loadAllOverlapping(order) == loadAllFromOverlapping(order, 0, <<>>, <<>>)

\* the while (true) loop of loadAllProfiles / loadAllSupabaseJobs from this page
\* on: the rows collected and the ranges requested
RECURSIVE loadAllFrom(_, _, _, _)
loadAllFrom(order, page, acc, requests) ==
    LET from == page * pageSize
        to == (page + 1) * pageSize - 1
        data == RangeOf(order, from, to)
        asked == Append(requests, [from |-> from, to |-> to, got |-> Len(data)])
    IN IF Len(data) = 0 THEN [rows |-> acc, requests |-> asked]
       ELSE IF Len(data) < pageSize THEN [rows |-> acc \o data, requests |-> asked]
       ELSE loadAllFrom(order, page + 1, acc \o data, asked)

\* loadAllProfiles / loadAllSupabaseJobs on a table retrieved in this order
loadAll(order) == loadAllFrom(order, 0, <<>>, <<>>)

\* what pageLog records of one load, and of no load
Loaded(order) == [order |-> order, requests |-> loadAll(order).requests]
NoLoad == [order |-> <<>>, requests |-> <<>>]
NoPages == [profiles |-> NoLoad, jobs |-> NoLoad]

WpidsStats ==
    [totalWpUsers |-> 0, totalProfiles |-> 0, matched |-> 0, updated |-> 0,
     alreadySet |-> 0, notFound |-> 0, errors |-> 0]

\* updateWordPressUserIds up to processUpdates: file read, profiles loaded, matched
WpidsStart ==
    /\ Launch("wpids")
    /\ idx' = 0
    /\ UNCHANGED <<inputs, store, fresh, last, idLog, allSupabaseJobs, cacheMap>>
    /\ IF ~usersFile.ok
       THEN /\ stats' = WpidsStats
            /\ UNCHANGED <<allProfiles, work, storeErrs, pageLog>>
            /\ Exit(1)
       ELSE \E ans \in Answers([err |-> "none"]) :
            IF ans # "none"
            THEN /\ stats' = [WpidsStats EXCEPT !.totalWpUsers = Len(usersFile.rows)]
                 /\ storeErrs' = storeErrs + 1
                 /\ UNCHANGED <<allProfiles, work, pageLog>>
                 /\ Exit(1)
            ELSE \E order \in Orderings(profiles) :
                 \E users \in {usersFile.rows} :
                 \E ps \in {loadAll(order).rows} :
                 \E matched \in {{k \in DOMAIN ps :
                                     WpUserByEmail(users, normalizeEmail(ps[k].email)) # 0}} :
                 \E updates \in {PendingUpdates(users, ps)} :
                    /\ allProfiles' = ps
                    /\ pageLog' = [profiles |-> Loaded(order), jobs |-> NoLoad]
                    /\ work' = updates
                    /\ stats' = [WpidsStats EXCEPT !.totalWpUsers = Len(users),
                                                   !.totalProfiles = Len(ps),
                                                   !.matched = Cardinality(matched),
                                                   !.alreadySet = Cardinality(matched) - Len(updates),
                                                   !.notFound = Len(ps) - Cardinality(matched)]
                    /\ script' = "wpids"
                    /\ pc' = "updates"
                    /\ UNCHANGED <<storeErrs, exitCode, runLog>>

\* one pass of processUpdates: updateProfileWordPressId on the next update
WpidsUpdate ==
    /\ script = "wpids" /\ pc = "updates"
    /\ idx < Len(work)
    /\ LET update == work[idx + 1]
           value == JsToString(update.wpUser.id)
       IN \E ans \in UpdateAnswers("none") :
          /\ profiles' = IF ans = "none"
                         THEN {IF p.id = update.profile.id
                               THEN [p EXCEPT !.wordpress_user_id = value] ELSE p : p \in profiles}
                         ELSE profiles
          /\ stats' = IF ans = "none" THEN [stats EXCEPT !.updated = @ + 1]
                      ELSE [stats EXCEPT !.errors = @ + 1]
          /\ storeErrs' = IF ans = "none" THEN storeErrs ELSE storeErrs + 1
          /\ last' = [kind |-> "wpid", profile |-> update.profile.id, value |-> value,
                      written |-> ans = "none"]
    /\ idx' = idx + 1
    /\ UNCHANGED <<inputs, jobs, loaded, fresh, idLog, pageLog, plan, script, pc, exitCode, runLog>>

WpidsSummary ==
    /\ script = "wpids" /\ pc = "updates"
    /\ idx = Len(work)
    /\ UNCHANGED <<inputs, store, loaded, fresh, last, idLog, pageLog, storeErrs, stats, idx, plan>>
    /\ Exit(SummaryExitCode(stats))

(***************************************************************************)
(* update-job-posters (unnamed/part_006): direct-id lookup, fuzzy job match *)
(***************************************************************************)
\* the post author taken first, the metadata key second
getEmployerIdAuthorFirst(wpJob) ==
    IF ~Falsy(wpJob.author_id) THEN wpJob.author_id
    ELSE IF ~Falsy(wpJob.posted_by) THEN wpJob.posted_by
    ELSE NULL

\* getEmployerId: meta._job_employer_posted_by, else author_id, else null
getEmployerId(wpJob) ==
    IF ~Falsy(wpJob.posted_by) THEN wpJob.posted_by
    ELSE IF ~Falsy(wpJob.author_id) THEN wpJob.author_id
    ELSE NULL

\* normalizeString
normalizeString(str) ==
    IF Falsy(str) THEN EmptyStr ELSE CollapseSpaces(Trim(ToLowerCase(str)))

\* getLocation: locations[0] of a non-empty locations array, else null
getLocation(wpJob) == IF Len(wpJob.locations) > 0 THEN wpJob.locations[1] ELSE NULL

\* getCity: meta['custom-text-13457249'] || null
getCity(wpJob) == OrElse(wpJob.city, NULL)

\* parseWpDate: the ISO form of the date read as UTC; null when absent or when
\* toISOString throws on an invalid date
parseWpDate(dateStr) ==
    IF Falsy(dateStr) THEN NULL
    ELSE IF dateStr = BadDate THEN NULL
    ELSE Ts(dateStr[2] * 1000)

\* new Date(x).getTime()
GetTime(x) == x[2]

Abs(n) == IF n < 0 THEN 0 - n ELSE n

DATE_TOLERANCE_MS == 1000

\* a filter that also accepts dates exactly one second apart
JobMatchesWithinSecond(wpJob, dbJob) ==
    LET wpLocation == getLocation(wpJob)
        wpCity == normalizeString(getCity(wpJob))
        wpDate == parseWpDate(wpJob.date_posted)
    IN /\ normalizeString(dbJob.title) = normalizeString(wpJob.title)
       /\ (~Falsy(wpLocation) /\ ~Falsy(dbJob.location_country))
             => normalizeString(dbJob.location_country) = normalizeString(wpLocation)
       /\ (~Falsy(wpCity) /\ ~Falsy(dbJob.location_city))
             => normalizeString(dbJob.location_city) = wpCity
       /\ (~Falsy(wpDate) /\ ~Falsy(dbJob.posted_date))
             => Abs(GetTime(dbJob.posted_date) - GetTime(wpDate)) <= DATE_TOLERANCE_MS

\* a filter on the title alone
JobMatchesTitleOnly(wpJob, dbJob) ==
    normalizeString(dbJob.title) = normalizeString(wpJob.title)

\* the filter predicate of findMatchingJobs
JobMatches(wpJob, dbJob) ==
    LET wpTitle == normalizeString(wpJob.title)
        wpLocation == getLocation(wpJob)
        wpCity == normalizeString(getCity(wpJob))
        wpDate == parseWpDate(wpJob.date_posted)
        titleMatch == normalizeString(dbJob.title) = wpTitle
        locationMatch ==
            IF ~Falsy(wpLocation) /\ ~Falsy(dbJob.location_country)
            THEN normalizeString(dbJob.location_country) = normalizeString(wpLocation)
            ELSE TRUE
        cityMatch ==
            IF ~Falsy(wpCity) /\ ~Falsy(dbJob.location_city)
            THEN normalizeString(dbJob.location_city) = wpCity
            ELSE TRUE
        dateMatch ==
            IF ~Falsy(wpDate) /\ ~Falsy(dbJob.posted_date)
            THEN Abs(GetTime(dbJob.posted_date) - GetTime(wpDate)) < DATE_TOLERANCE_MS
            ELSE TRUE
    IN titleMatch /\ (locationMatch /\ cityMatch /\ dateMatch)

\* the matching jobs, last loaded first
findMatchingJobsLastFirst(loadedJobs, wpJob) ==
    LET m == SelectIdx(loadedJobs, {i \in DOMAIN loadedJobs : JobMatches(wpJob, loadedJobs[i])}, 1)
    IN [i \in DOMAIN m |-> m[Len(m) + 1 - i]]

\* a filter that also leaves out the jobs that already have an employer
findMatchingJobsUnassigned(loadedJobs, wpJob) ==
    SelectIdx(loadedJobs, {i \in DOMAIN loadedJobs :
                              /\ JobMatches(wpJob, loadedJobs[i])
                              /\ loadedJobs[i].employer_id = PLACEHOLDER_EMPLOYER_UUID}, 1)

\* a filter that lets every loaded job through
findMatchingJobsAnyTitle(loadedJobs, wpJob) == loadedJobs

\* findMatchingJobs: allSupabaseJobs.filter(...), in loaded order
findMatchingJobs(loadedJobs, wpJob) ==
    SelectIdx(loadedJobs, {i \in DOMAIN loadedJobs : JobMatches(wpJob, loadedJobs[i])}, 1)

\* array.find(pred): the first element whose index is in hits, else NULL
FindFirst(s, hits) ==
    IF hits = {} THEN NULL ELSE s[CHOOSE i \in hits : \A j \in hits : i <= j]

CacheHas(cache, key) == \E e \in cache : e[1] = key
CacheGet(cache, key) == (CHOOSE e \in cache : e[1] = key)[2]

\* a lookup that settles for the first loaded profile when none records the id
findProfileByWordPressIdOrFirst(loadedProfiles, cache, wpUserId) ==
    LET hits == {i \in DOMAIN loadedProfiles :
                    loadedProfiles[i].wordpress_user_id = JsToString(wpUserId)}
    IN [id |-> FindFirst(loadedProfiles, IF hits # {} THEN hits ELSE DOMAIN loadedProfiles).id,
        cache |-> cache]

\* a lookup that answers from the map whatever key the entry was stored under
findProfileByWordPressIdAnyEntry(loadedProfiles, cache, wpUserId) ==
    IF Falsy(wpUserId) THEN [id |-> NULL, cache |-> cache]
    ELSE IF cache # {} THEN [id |-> (CHOOSE e \in cache : TRUE)[2], cache |-> cache]
    ELSE LET hits == {i \in DOMAIN loadedProfiles :
                         loadedProfiles[i].wordpress_user_id = JsToString(wpUserId)}
         IN IF hits # {}
            THEN [id |-> FindFirst(loadedProfiles, hits).id,
                  cache |-> cache \cup {<<wpUserId, FindFirst(loadedProfiles, hits).id>>}]
            ELSE [id |-> NULL, cache |-> cache]

\* findProfileByWordPressId: [id |-> uuid or NULL, cache |-> the map afterwards]
findProfileByWordPressId(loadedProfiles, cache, wpUserId) ==
    IF Falsy(wpUserId) THEN [id |-> NULL, cache |-> cache]
    ELSE IF CacheHas(cache, wpUserId) THEN [id |-> CacheGet(cache, wpUserId), cache |-> cache]
    ELSE LET hits == {i \in DOMAIN loadedProfiles :
                         loadedProfiles[i].wordpress_user_id = JsToString(wpUserId)}
         IN IF hits # {}
            THEN [id |-> FindFirst(loadedProfiles, hits).id,
                  cache |-> cache \cup {<<wpUserId, FindFirst(loadedProfiles, hits).id>>}]
            ELSE [id |-> NULL, cache |-> cache]

\* the looked-up id written as it is, with no fallback
FinalEmployerUuidNoFallback(employerUuid) == employerUuid

\* employerUuid || PLACEHOLDER_EMPLOYER_UUID
FinalEmployerUuid(employerUuid) == OrElse(employerUuid, PLACEHOLDER_EMPLOYER_UUID)

BothFields(uuid) == [employer_id |-> uuid, poster_id |-> uuid]
EmployerOnly(uuid) == [employer_id |-> uuid]

\* an update that gives up when the store names poster_id, without a second write
updateJobPosterNoRetry(uuid, a1, a2) ==
    IF a1 = "none"
    THEN [success |-> TRUE, posterIdSkipped |-> FALSE, applied |-> "both", writes |-> 1]
    ELSE [success |-> FALSE, posterIdSkipped |-> FALSE, applied |-> "none", writes |-> 1]

\* updateJobPoster, given the answers a1 of the first update and a2 of the retry:
\* what it returns, the payload that took effect (or NULL), and the updates issued
updateJobPoster(uuid, a1, a2) ==
    IF a1 = "none"
    THEN [success |-> TRUE, posterIdSkipped |-> FALSE, applied |-> "both", writes |-> 1]
    ELSE IF a1 = "poster"
    THEN IF a2 = "none"
         THEN [success |-> TRUE, posterIdSkipped |-> TRUE, applied |-> "employer", writes |-> 2]
         ELSE [success |-> FALSE, posterIdSkipped |-> a2 = "empty", applied |-> "none", writes |-> 2]
    ELSE [success |-> FALSE, posterIdSkipped |-> FALSE, applied |-> "none", writes |-> 1]

PostersStats ==
    [total |-> 0, updated |-> 0, notFound |-> 0, multipleMatches |-> 0, errors |-> 0,
     skipped |-> 0, usedPlaceholder |-> 0, posterIdNotAvailable |-> 0]

\* loadAllProfiles / loadAllSupabaseJobs: the whole table, in the order the store
\* returns it; "error" when a page read fails (the script exits 1)
LoadAnswers == {"none"} \cup (IF faults THEN {"error"} ELSE {})

\* a test that lets a run go on with no job loaded
NoJobsInStoreIgnored(loadedJobs) == FALSE

\* allSupabaseJobs.length === 0: 'No jobs found in Supabase database'
NoJobsInStore(loadedJobs) == Len(loadedJobs) = 0

\* updateJobPosters up to processJobs
PostersStart ==
    /\ Launch("posters")
    /\ idx' = 0
    /\ cacheMap' = {}
    /\ UNCHANGED <<inputs, store, fresh, last, idLog>>
    /\ IF ~jobsFile.ok
       THEN /\ stats' = PostersStats
            /\ UNCHANGED <<allProfiles, allSupabaseJobs, work, storeErrs, pageLog>>
            /\ Exit(1)
       ELSE /\ stats' = [PostersStats EXCEPT !.total = Len(jobsFile.rows)]
            /\ work' = SelectIdx(jobsFile.rows,
                                 {i \in DOMAIN jobsFile.rows : ~Falsy(getEmployerId(jobsFile.rows[i]))}, 1)
            /\ \E ans \in LoadAnswers :
               IF ans # "none"
               THEN /\ storeErrs' = storeErrs + 1
                    /\ UNCHANGED <<allProfiles, allSupabaseJobs, pageLog>>
                    /\ Exit(1)
               ELSE \E ps \in Orderings(profiles) : \E js \in Orderings(jobs) :
                    /\ allProfiles' = loadAll(ps).rows
                    /\ allSupabaseJobs' = loadAll(js).rows
                    /\ pageLog' = [profiles |-> Loaded(ps), jobs |-> Loaded(js)]
                    /\ UNCHANGED storeErrs
                    /\ IF NoJobsInStore(allSupabaseJobs')
                       THEN Exit(1)
                       ELSE /\ script' = "posters"
                            /\ pc' = "jobs"
                            /\ UNCHANGED <<exitCode, runLog>>

\* counters that take a job moved to the placeholder as an outcome of its own
PostersCountPlaceholderApart(st, nMatches, employerUuid, result) ==
    [st EXCEPT
        !.multipleMatches = IF nMatches > 1 THEN @ + 1 ELSE @,
        !.usedPlaceholder = IF Falsy(employerUuid) THEN @ + 1 ELSE @,
        !.updated = IF result.success /\ ~Falsy(employerUuid) THEN @ + 1 ELSE @,
        !.posterIdNotAvailable =
            IF result.success /\ result.posterIdSkipped THEN @ + 1 ELSE @,
        !.errors = IF result.success THEN @ ELSE @ + 1]

\* the counters after a job that has matches: multipleMatches, usedPlaceholder,
\* then updated (and posterIdNotAvailable) or errors by the update's result
PostersCount(st, nMatches, employerUuid, result) ==
    [st EXCEPT
        !.multipleMatches = IF nMatches > 1 THEN @ + 1 ELSE @,
        !.usedPlaceholder = IF Falsy(employerUuid) THEN @ + 1 ELSE @,
        !.updated = IF result.success THEN @ + 1 ELSE @,
        !.posterIdNotAvailable =
            IF result.success /\ result.posterIdSkipped THEN @ + 1 ELSE @,
        !.errors = IF result.success THEN @ ELSE @ + 1]

\* one pass of the loop of processJobs
PostersJob ==
    /\ script = "posters" /\ pc = "jobs"
    /\ idx < Len(work)
    /\ \E wpJob \in {work[idx + 1]} :
       \E wpEmployerId \in {getEmployerId(wpJob)} :
       \E matches \in {findMatchingJobs(allSupabaseJobs, wpJob)} :
       \E found \in {findProfileByWordPressId(allProfiles, cacheMap, wpEmployerId)} :
       \E employerUuid \in {found.id} :
       \E finalEmployerUuid \in {FinalEmployerUuid(employerUuid)} :
       LET entry == [kind |-> "job", script |-> "posters", wpJob |-> wpJob, before |-> stats,
                     jobsBefore |-> jobs, wpEmployerId |-> wpEmployerId,
                     matches |-> [i \in DOMAIN matches |-> matches[i].id]]
           \* the updates of this run's earlier passes that took effect
           targets == IF idx = 0 THEN <<>> ELSE last.targets
       IN IF Falsy(wpEmployerId)
          THEN /\ stats' = [stats EXCEPT !.skipped = @ + 1]
               /\ last' = entry @@ [outcome |-> "skipped", writes |-> 0, targets |-> targets]
               /\ UNCHANGED <<jobs, cacheMap, storeErrs>>
          ELSE IF Len(matches) = 0
          THEN /\ stats' = [stats EXCEPT !.notFound = @ + 1]
               /\ last' = entry @@ [outcome |-> "notFound", writes |-> 0, targets |-> targets]
               /\ UNCHANGED <<jobs, cacheMap, storeErrs>>
          ELSE \E a1 \in UpdateAnswers(UpdateJobAnswer(profiles, BothFields(finalEmployerUuid))) :
               \E a2 \in IF a1 = "poster"
                         THEN UpdateAnswers(UpdateJobAnswer(profiles, EmployerOnly(finalEmployerUuid)))
                         ELSE {"not issued"} :
               LET match == matches[1]
                   result == updateJobPoster(finalEmployerUuid, a1, a2)
                   payload == IF result.applied = "both" THEN BothFields(finalEmployerUuid)
                              ELSE EmployerOnly(finalEmployerUuid)
               IN /\ jobs' = IF result.applied = "none" THEN jobs
                             ELSE UpdateJobRow(jobs, match.id, payload)
                  /\ cacheMap' = found.cache
                  /\ stats' = PostersCount(stats, Len(matches), employerUuid, result)
                  /\ storeErrs' = storeErrs
                                  + (IF a1 \in {"none", "empty"} THEN 0 ELSE 1)
                                  + (IF a2 \in {"none", "empty", "not issued"} THEN 0 ELSE 1)
                  /\ last' = entry @@ [outcome |-> IF result.success THEN "updated" ELSE "error",
                                       target |-> match.id, value |-> finalEmployerUuid,
                                       employerUuid |-> employerUuid, writes |-> result.writes,
                                       answers |-> <<a1, a2>>, result |-> result,
                                       targets |-> IF result.applied = "none" THEN targets
                                                   ELSE Append(targets, [record |-> idx + 1,
                                                                         target |-> match.id,
                                                                         value |-> finalEmployerUuid])]
    /\ idx' = idx + 1
    /\ UNCHANGED <<inputs, profiles, allProfiles, allSupabaseJobs, work, fresh, idLog, pageLog,
                   plan, script, pc, exitCode, runLog>>

\* the summary and the exit status
PostersSummary ==
    /\ script = "posters" /\ pc = "jobs"
    /\ idx = Len(work)
    /\ UNCHANGED <<inputs, store, loaded, fresh, last, idLog, pageLog, storeErrs, stats, idx, plan>>
    /\ Exit(SummaryExitCode(stats))

(***************************************************************************)
(* update-jobs-by-email.js: employer looked up by the mapping's e-mail      *)
(***************************************************************************)
\* email.toLowerCase().trim()
LowerTrim(email) == Trim(ToLowerCase(email))

\* a lookup that compares the stored e-mail as it is
findProfileByEmailRaw(loadedProfiles, cache, email) ==
    IF Falsy(email) THEN [id |-> NULL, cache |-> cache]
    ELSE LET normalizedEmail == LowerTrim(email)
             hits == {i \in DOMAIN loadedProfiles :
                         /\ ~Falsy(loadedProfiles[i].email)
                         /\ loadedProfiles[i].email = normalizedEmail}
         IN IF CacheHas(cache, normalizedEmail)
            THEN [id |-> CacheGet(cache, normalizedEmail), cache |-> cache]
            ELSE IF hits # {}
            THEN [id |-> FindFirst(loadedProfiles, hits).id,
                  cache |-> cache \cup {<<normalizedEmail, FindFirst(loadedProfiles, hits).id>>}]
            ELSE [id |-> NULL, cache |-> cache]

\* findProfileByEmail: [id |-> uuid or NULL, cache |-> emailToUuidMap afterwards]
findProfileByEmail(loadedProfiles, cache, email) ==
    IF Falsy(email) THEN [id |-> NULL, cache |-> cache]
    ELSE LET normalizedEmail == LowerTrim(email)
             hits == {i \in DOMAIN loadedProfiles :
                         /\ ~Falsy(loadedProfiles[i].email)
                         /\ LowerTrim(loadedProfiles[i].email) = normalizedEmail}
         IN IF CacheHas(cache, normalizedEmail)
            THEN [id |-> CacheGet(cache, normalizedEmail), cache |-> cache]
            ELSE IF hits # {}
            THEN [id |-> FindFirst(loadedProfiles, hits).id,
                  cache |-> cache \cup {<<normalizedEmail, FindFirst(loadedProfiles, hits).id>>}]
            ELSE [id |-> NULL, cache |-> cache]

\* the loaded jobs (indices) that findJobByWordPressId's test accepts
JobsByWordPressId(loadedJobs, wpJobId) ==
    IF Falsy(wpJobId) THEN {}
    ELSE {i \in DOMAIN loadedJobs :
             /\ ~Falsy(loadedJobs[i].wordpress_job_id)
             /\ JsToString(loadedJobs[i].wordpress_job_id) = JsToString(wpJobId)}

\* a lookup that settles for the job loaded last
findJobByWordPressIdLast(loadedJobs, wpJobId) ==
    LET hits == JobsByWordPressId(loadedJobs, wpJobId)
    IN IF hits = {} THEN NULL ELSE loadedJobs[CHOOSE i \in hits : \A j \in hits : j <= i]

\* findJobByWordPressId: the first of them, or NULL
findJobByWordPressId(loadedJobs, wpJobId) ==
    FindFirst(loadedJobs, JobsByWordPressId(loadedJobs, wpJobId))

\* updateJobEmployer, given the store's answer to the update
updateJobEmployer(ans) == [success |-> ans = "none"]

EmailStats ==
    [total |-> 0, updated |-> 0, jobNotFoundInDb |-> 0, emailNotFound |-> 0,
     errors |-> 0, skipped |-> 0, usedPlaceholder |-> 0]

\* updateJobEmployers up to processJobs
EmailStart ==
    /\ Launch("email")
    /\ idx' = 0
    /\ cacheMap' = {}
    /\ UNCHANGED <<inputs, store, fresh, last, idLog>>
    /\ IF ~mappingFile.ok
       THEN /\ stats' = EmailStats
            /\ UNCHANGED <<allProfiles, allSupabaseJobs, work, storeErrs, pageLog>>
            /\ Exit(1)
       ELSE /\ stats' = [EmailStats EXCEPT !.total = Len(mappingFile.rows)]
            /\ work' = SelectIdx(mappingFile.rows,
                                 {i \in DOMAIN mappingFile.rows :
                                     ~Falsy(mappingFile.rows[i].employer_email)}, 1)
            /\ \E ans \in LoadAnswers :
               IF ans # "none"
               THEN /\ storeErrs' = storeErrs + 1
                    /\ UNCHANGED <<allProfiles, allSupabaseJobs, pageLog>>
                    /\ Exit(1)
               ELSE \E ps \in Orderings(profiles) : \E js \in Orderings(jobs) :
                    /\ allProfiles' = loadAll(ps).rows
                    /\ allSupabaseJobs' = loadAll(js).rows
                    /\ pageLog' = [profiles |-> Loaded(ps), jobs |-> Loaded(js)]
                    /\ UNCHANGED storeErrs
                    /\ IF NoJobsInStore(allSupabaseJobs')
                       THEN Exit(1)
                       ELSE /\ script' = "email"
                            /\ pc' = "jobs"
                            /\ UNCHANGED <<exitCode, runLog>>

\* one pass of the loop of processJobs
EmailJob ==
    /\ script = "email" /\ pc = "jobs"
    /\ idx < Len(work)
    /\ \E mapping \in {work[idx + 1]} :
       \E job \in {findJobByWordPressId(allSupabaseJobs, mapping.job_id)} :
       \E found \in {findProfileByEmail(allProfiles, cacheMap, mapping.employer_email)} :
       \E employerUuid \in {found.id} :
       \E finalEmployerUuid \in {FinalEmployerUuid(employerUuid)} :
       LET entry == [kind |-> "job", script |-> "email", mapping |-> mapping, before |-> stats,
                     jobsBefore |-> jobs]
       IN IF Falsy(mapping.employer_email) \/ Falsy(mapping.job_id)
          THEN /\ stats' = [stats EXCEPT !.skipped = @ + 1]
               /\ last' = entry @@ [outcome |-> "skipped", writes |-> 0]
               /\ UNCHANGED <<jobs, cacheMap, storeErrs>>
          ELSE IF JobsByWordPressId(allSupabaseJobs, mapping.job_id) = {}
          THEN /\ stats' = [stats EXCEPT !.jobNotFoundInDb = @ + 1]
               /\ last' = entry @@ [outcome |-> "notFound", writes |-> 0]
               /\ UNCHANGED <<jobs, cacheMap, storeErrs>>
          ELSE \E ans \in UpdateAnswers(UpdateJobAnswer(profiles, EmployerOnly(finalEmployerUuid))) :
               LET result == updateJobEmployer(ans)
               IN /\ jobs' = IF result.success
                             THEN UpdateJobRow(jobs, job.id, EmployerOnly(finalEmployerUuid))
                             ELSE jobs
                  /\ cacheMap' = found.cache
                  /\ stats' = [stats EXCEPT
                        !.usedPlaceholder = IF Falsy(employerUuid) THEN @ + 1 ELSE @,
                        !.emailNotFound = IF Falsy(employerUuid) THEN @ + 1 ELSE @,
                        !.updated = IF result.success THEN @ + 1 ELSE @,
                        !.errors = IF result.success THEN @ ELSE @ + 1]
                  /\ storeErrs' = storeErrs + (IF ans \in {"none", "empty"} THEN 0 ELSE 1)
                  /\ last' = entry @@ [outcome |-> IF result.success THEN "updated" ELSE "error",
                                       target |-> job.id, value |-> finalEmployerUuid,
                                       employerUuid |-> employerUuid, writes |-> 1,
                                       answers |-> <<ans>>, result |-> result]
    /\ idx' = idx + 1
    /\ UNCHANGED <<inputs, profiles, allProfiles, allSupabaseJobs, work, fresh, idLog, pageLog,
                   plan, script, pc, exitCode, runLog>>

\* the summary and the exit status
EmailSummary ==
    /\ script = "email" /\ pc = "jobs"
    /\ idx = Len(work)
    /\ UNCHANGED <<inputs, store, loaded, fresh, last, idLog, pageLog, storeErrs, stats, idx, plan>>
    /\ Exit(SummaryExitCode(stats))

(***************************************************************************)
(* The loaders, run twice over one users file                              *)
(***************************************************************************)
EmailA == <<"a", "@", "x">>
EmailB == <<"b", "@", "x">>
EmailBUpper == <<"B", "@", "x">>
EmailC == <<"c", "@", "x">>

LegacyUser(id, email, roles, registered) ==
    [id |-> id, email |-> email, roles |-> roles, registered |-> registered,
     first_name |-> EmptyStr, last_name |-> EmptyStr,
     display_name |-> NULL, username |-> <<"u">>, meta |-> NoMeta]

\* legacy users: ids as numbers and as strings, a shared id, a shared email, emails
\* that differ in case only, every shape of the roles field, a date that does not parse
LoadUsers ==
    { LegacyUser(Num(1), EmailA, <<EMPLOYER_ROLE>>, WpDate(1)),
      LegacyUser(Num(2), EmailB, <<"subscriber">>, NULL),
      LegacyUser(Num(1), EmailB, NULL, WpDate(1)),
      LegacyUser(Str(2), EmailBUpper, <<"wp_job_board_pro_candidate", EMPLOYER_ROLE>>, WpDate(2)),
      LegacyUser(Num(3), EmailC, <<>>, BadDate) }

SeqsUpTo(S, n) == UNION {[1..k -> S] : k \in 0..n}

NoRun ==
    /\ script = "idle" /\ pc = "done" /\ idx = 0 /\ stats = BulkStats
    /\ exitCode = NULL /\ runLog = <<>>
    /\ allProfiles = <<>> /\ allSupabaseJobs = <<>> /\ cacheMap = {} /\ work = <<>>
    /\ uuidSeq = 0 /\ jobSeq = 0
    /\ last = [kind |-> "none"] /\ idLog = {} /\ storeErrs = 0
    /\ pageLog = NoPages

InitLoad ==
    /\ usersFile \in {File(us) : us \in SeqsUpTo(LoadUsers, MaxUsers)} \cup {BadFile}
    /\ jobsFile = File(<<>>) /\ mappingFile = File(<<>>)
    /\ faults \in BOOLEAN
    /\ hasPosterId = TRUE
    /\ profiles = {} /\ jobs = {}
    /\ plan \in {<<"bulk", "bulk">>, <<"upload", "upload">>}
    /\ NoRun

NextLoad ==
    \/ BulkStart \/ BulkBatch \/ BulkSummary
    \/ UploadStart \/ UploadUser \/ UploadSummary

SpecLoad == InitLoad /\ [][NextLoad]_vars

(***************************************************************************)
(* Claims on the loaders                                                   *)
(***************************************************************************)
DistinctEmails == {usersFile.rows[i].email : i \in DOMAIN usersFile.rows}

\* C2: a loader run twice over the same users file and batch size, from an empty
\* store and with no error answered by the store, leaves as many profiles after the
\* second run as after the first, and at no time more than there are distinct
\* e-mails in the file.
C2_LoaderIdempotent ==
    storeErrs = 0 =>
        /\ Cardinality(profiles) <= Cardinality(DistinctEmails)
        /\ Len(runLog) = 2 => runLog[2].nProfiles = runLog[1].nProfiles

\* both runs ended, nothing failed, and the file repeats an e-mail the first run
\* had persisted
C2_Witness ==
    /\ Len(runLog) = 2 /\ storeErrs = 0
    /\ runLog[2].script = "bulk" /\ runLog[2].exit = 0
    /\ Len(usersFile.rows) = MaxUsers
    /\ runLog[2].nProfiles = 2

C2_WitnessUpload ==
    /\ Len(runLog) = 2 /\ storeErrs = 0
    /\ runLog[2].script = "upload" /\ runLog[2].exit = 0
    /\ runLog[2].nProfiles = 2 /\ runLog[2].stats.skipped = Len(usersFile.rows)

\* C3 as stated: in every loader the profile id is a function of the legacy id.
C3_EveryLoaderIdFromLegacyId ==
    \A a, b \in idLog : a.loader = b.loader /\ a.wpid = b.wpid => a.id = b.id

\* C3 amended: in bulk-upload-users.js the profile id transformUser assigns is a
\* function of the legacy user id alone, within a run and across runs
\* (upload-users-to-supabase.js draws a random uuid v4 per call instead).
C3_BulkIdFromLegacyId ==
    \A a, b \in idLog : a.loader = "bulk" /\ b.loader = "bulk" /\ a.wpid = b.wpid => a.id = b.id

\* the bulk loader ran twice over a file in which two different users share a legacy id
C3_Witness ==
    /\ Len(runLog) = 2 /\ runLog[2].script = "bulk"
    /\ \E i, j \in DOMAIN usersFile.rows :
         /\ JsToString(usersFile.rows[i].id) = JsToString(usersFile.rows[j].id)
         /\ usersFile.rows[i].email # usersFile.rows[j].email
         /\ \E a \in idLog : a.wpid = JsToString(usersFile.rows[i].id)
    /\ idx = TotalBatches(usersFile.rows)

HasEmployerTag(wpUser) == wpUser.roles # NULL /\ EMPLOYER_ROLE \in Range(wpUser.roles)

\* C4: the user_type transformUser gives a legacy user is 'candidate' or 'employer',
\* and 'employer' exactly when the user's role list contains wp_job_board_pro_employer
\* (a missing or empty role list gives 'candidate').
C4_UserTypeFromRoles ==
    last.kind = "transform" =>
        \A i \in DOMAIN last.items :
            /\ last.items[i].row.user_type \in {"candidate", "employer"}
            /\ last.items[i].row.user_type = "employer" <=> HasEmployerTag(last.items[i].user)

\* a user whose employer tag is not the first role, and one without a role list
C4_Witness ==
    /\ last.kind = "transform"
    /\ \E i, j \in DOMAIN last.items :
         /\ Len(last.items[i].user.roles) = 2 /\ last.items[i].row.user_type = "employer"
         /\ last.items[j].user.roles = NULL /\ last.items[j].row.user_type = "candidate"

(***************************************************************************)
(* The pipeline: a loader, the job import, then reconcilers                *)
(***************************************************************************)
\* longest jobs file and longest mapping file
MaxJobs == 2

LegacyJob(id, title, author, postedBy, locations, city, date) ==
    [id |-> id, title |-> title, author_id |-> author, posted_by |-> postedBy,
     locations |-> locations, city |-> city, date_posted |-> date]

MappingEntry(jobId, email) ==
    [job_id |-> jobId, job_title |-> <<"t">>, employer_email |-> email]

TitleAb == <<"A", "b">>
TitleCd == <<"C", "d">>
CountryUK == <<"U", "K">>
CountryNL == <<"N", "L">>
EmailCVariant == <<" ", "C", "@", "X">>
EmailUnknown == <<"n", "o", "@", "x">>

\* a candidate and an employer
PipeUsers ==
    << LegacyUser(Num(2), EmailB, <<"subscriber">>, NULL),
       LegacyUser(Num(3), EmailC, <<EMPLOYER_ROLE>>, WpDate(2)) >>

\* legacy jobs of the employer: two that differ in the country only, a third equal
\* to the first in every match field, one posted by a user that no profile records
\* (its author is the employer), and one whose author is not in the users file
PipeJobs ==
    { LegacyJob(Num(11), TitleAb, Num(3), NULL, <<CountryUK>>, NULL, WpDate(1)),
      LegacyJob(Num(12), TitleAb, Num(3), NULL, <<CountryNL>>, NULL, WpDate(1)),
      LegacyJob(Num(13), TitleAb, Str(3), NULL, <<CountryUK>>, NULL, WpDate(1)),
      LegacyJob(Str(14), TitleCd, Num(3), Num(9), <<>>, NULL, NULL),
      LegacyJob(Num(15), TitleCd, Num(9), NULL, <<>>, NULL, NULL) }

\* mapping entries: the employer's e-mail in another case, an unknown e-mail, no
\* e-mail, no job id, a job id the store does not hold
PipeMappings ==
    { MappingEntry(Num(11), EmailCVariant),
      MappingEntry(Str(12), EmailUnknown),
      MappingEntry(Num(11), NULL),
      MappingEntry(NULL, EmailC),
      MappingEntry(Num(77), EmailC) }

PipePlans ==
    { <<"upload", "import", "posters">>,
      <<"bulk", "import", "posters">>,
      <<"bulk", "import", "email">> }

\* the jobs files tried with the e-mail reconciler, which reads only the job ids
EmailPlanJobs ==
    { <<>>,
      << LegacyJob(Num(11), TitleAb, Num(3), NULL, <<CountryUK>>, NULL, WpDate(1)),
         LegacyJob(Num(12), TitleAb, Num(3), NULL, <<CountryNL>>, NULL, WpDate(1)) >> }

InitPipe ==
    /\ usersFile = File(PipeUsers)
    /\ plan \in PipePlans
    /\ jobsFile \in IF "email" \in Range(plan)
                    THEN {File(js) : js \in EmailPlanJobs}
                    ELSE {File(js) : js \in SeqsUpTo(PipeJobs, MaxJobs)} \cup {BadFile}
    /\ mappingFile \in IF "email" \in Range(plan)
                       THEN {File(ms) : ms \in SeqsUpTo(PipeMappings, MaxJobs)} \cup {BadFile}
                       ELSE {File(<<>>)}
    /\ faults \in BOOLEAN
    /\ hasPosterId \in BOOLEAN
    /\ profiles = {} /\ jobs = {}
    /\ NoRun

NextPipe ==
    \/ BulkStart \/ BulkBatch \/ BulkSummary
    \/ UploadStart \/ UploadUser \/ UploadSummary
    \/ ImportStart \/ ImportJob \/ ImportSummary
    \/ PostersStart \/ PostersJob \/ PostersSummary
    \/ EmailStart \/ EmailJob \/ EmailSummary

SpecPipe == InitPipe /\ [][NextPipe]_vars

(***************************************************************************)
(* Claims on the pipeline                                                  *)
(***************************************************************************)
\* the last step was a reconciler's loop pass that issued an update of a job
IssuedUpdate == last.kind = "job" /\ last.outcome \in {"updated", "error"}

\* C1: after the job import and then a reconciler (direct-id/fuzzy or e-mail), with
\* whatever answers the store gave to the individual writes, every job row has an
\* employer_id that is not null and is the id of a profile row or the sentinel
\* 00000000-0000-0000-0000-000000000001; and no insert of the import and no update
\* of a reconciler carries a null employer_id.
C1_EmployerAlwaysResolved ==
    /\ \A j \in jobs :
          /\ j.employer_id # NULL
          /\ \/ j.employer_id = PLACEHOLDER_EMPLOYER_UUID
             \/ \E p \in profiles : p.id = j.employer_id
    /\ last.kind = "import" /\ last.written => last.employer_id # NULL
    /\ IssuedUpdate => last.value # NULL

\* a reconciler has ended after some store request failed, leaving one job on a
\* loaded profile and another on the sentinel
C1_Witness ==
    /\ Len(runLog) = 3 /\ runLog[3].script \in {"posters", "email"}
    /\ storeErrs > 0
    /\ \E j \in jobs : j.employer_id = PLACEHOLDER_EMPLOYER_UUID
    /\ \E j \in jobs : /\ j.employer_id # PLACEHOLDER_EMPLOYER_UUID
                       /\ \E p \in profiles : p.id = j.employer_id

(***************************************************************************)
(* End to end: three users, two jobs of the employer, from an empty store  *)
(***************************************************************************)
\* two candidates and one employer, distinct e-mails
E2EUsers ==
    << LegacyUser(Num(1), EmailA, <<"subscriber">>, WpDate(1)),
       LegacyUser(Num(2), EmailB, <<>>, NULL),
       LegacyUser(Num(3), EmailC, <<EMPLOYER_ROLE>>, WpDate(2)) >>

E2EJob(id, title, country, t) == LegacyJob(id, title, Num(3), NULL, <<country>>, NULL, WpDate(t))

\* the employer's two jobs: differing in the title, in the country, in the posted
\* date, or in no field that findMatchingJobs compares
E2EJobFiles ==
    { << E2EJob(Num(11), TitleAb, CountryUK, 1), E2EJob(Num(12), TitleCd, CountryUK, 1) >>,
      << E2EJob(Num(11), TitleAb, CountryUK, 1), E2EJob(Num(12), TitleAb, CountryNL, 1) >>,
      << E2EJob(Num(11), TitleAb, CountryUK, 1), E2EJob(Num(12), TitleAb, CountryUK, 2) >>,
      << E2EJob(Num(11), TitleAb, CountryUK, 1), E2EJob(Num(12), TitleAb, CountryUK, 1) >> }

\* the mapping file names each job and the employer's e-mail
E2EMappings == << MappingEntry(Num(11), EmailCVariant), MappingEntry(Num(12), EmailC) >>

E2EPlans ==
    { <<"bulk", "import", "posters">>,
      <<"bulk", "import", "wpids", "posters">>,
      <<"bulk", "import", "email">> }

InitE2E ==
    /\ usersFile = File(E2EUsers)
    /\ jobsFile \in {File(js) : js \in E2EJobFiles}
    /\ mappingFile = File(E2EMappings)
    /\ plan \in E2EPlans
    /\ faults = FALSE
    /\ hasPosterId \in BOOLEAN
    /\ profiles = {} /\ jobs = {}
    /\ NoRun

NextE2E ==
    \/ BulkStart \/ BulkBatch \/ BulkSummary
    \/ ImportStart \/ ImportJob \/ ImportSummary
    \/ WpidsStart \/ WpidsUpdate \/ WpidsSummary
    \/ PostersStart \/ PostersJob \/ PostersSummary
    \/ EmailStart \/ EmailJob \/ EmailSummary

SpecE2E == InitE2E /\ [][NextE2E]_vars

\* the scripts that have run, in order
Ran == [i \in DOMAIN runLog |-> runLog[i].script]

\* every script of the plan has ended with status 0 and the store refused nothing
CleanEnd ==
    /\ plan = <<>> /\ script = "idle" /\ runLog # <<>>
    /\ storeErrs = 0
    /\ \A i \in DOMAIN runLog : runLog[i].exit = 0

\* the ids of the profile rows stored with the employer's e-mail
EmployerProfileIds == {p.id : p \in {q \in profiles : q.email = EmailC}}

\* each legacy job of the file matches one job row only
JobsTellApart ==
    \A i \in DOMAIN jobsFile.rows :
        Cardinality({j \in jobs : JobMatches(jobsFile.rows[i], j)}) = 1

JobStep == last.kind = "job"

\* the ids of the loaded profiles that the legacy record's employer reference names
ReferencedProfiles ==
    IF last.script = "posters"
    THEN {allProfiles[i].id : i \in
             {k \in DOMAIN allProfiles :
                 allProfiles[k].wordpress_user_id = JsToString(getEmployerId(last.wpJob))}}
    ELSE {allProfiles[i].id : i \in
             {k \in DOMAIN allProfiles :
                 /\ ~Falsy(allProfiles[k].email)
                 /\ LowerTrim(allProfiles[k].email) = LowerTrim(last.mapping.employer_email)}}

\* C6 as stated: every legacy job a reconciler processes whose employer reference
\* matches no loaded profile gets the sentinel and adds exactly 1 to usedPlaceholder.
C6_PlaceholderForEveryUnmatchedJob ==
    JobStep /\ ReferencedProfiles = {} =>
        /\ IssuedUpdate
        /\ last.value = PLACEHOLDER_EMPLOYER_UUID
        /\ stats.usedPlaceholder = last.before.usedPlaceholder + 1

\* C6: for every legacy job for which a reconciler found a target job: if its
\* employer reference (legacy user id; e-mail in the e-mail strategy) matches no
\* loaded profile, the update the reconciler issues carries the sentinel as
\* employer_id, the row holds it when the update succeeds, and usedPlaceholder
\* grows by exactly 1; if the reference matches a profile, the update carries that
\* profile's id and the counter does not change. A legacy job that is skipped or
\* for which no target job is found gets no update and leaves the counter as it was.
C6_PlaceholderWhenTargetFound ==
    JobStep =>
        /\ IssuedUpdate /\ ReferencedProfiles = {} =>
              /\ last.value = PLACEHOLDER_EMPLOYER_UUID
              /\ stats.usedPlaceholder = last.before.usedPlaceholder + 1
        /\ IssuedUpdate /\ ReferencedProfiles # {} =>
              /\ last.value \in ReferencedProfiles
              /\ stats.usedPlaceholder = last.before.usedPlaceholder
        /\ last.outcome = "updated" =>
              \E j \in jobs : j.id = last.target /\ j.employer_id = last.value
        /\ ~IssuedUpdate => stats.usedPlaceholder = last.before.usedPlaceholder

\* a reconciler has put the sentinel on the target job of a legacy job whose
\* employer reference no loaded profile matches
C6_Witness ==
    /\ JobStep /\ last.outcome = "updated"
    /\ ReferencedProfiles = {}
    /\ \E j \in jobs : j.id = last.target /\ j.employer_id = PLACEHOLDER_EMPLOYER_UUID
    /\ stats.usedPlaceholder = last.before.usedPlaceholder + 1
    /\ allProfiles # <<>>

(***************************************************************************)
(* update-job-posters over a store that other programs filled              *)
(***************************************************************************)
\* most job rows in the store
MaxDbJobs == 2

TitleA_b == <<"A", " ", "b">>
TitleMessy == <<" ", "a", " ", "\t", "B", " ">>
CountryUKMessy == <<" ", "u", "k">>
Blank == <<" ">>
CityL == <<"L">>
CityLMessy == <<"l", " ">>
CityM == <<"M">>

DbFields(title, country, city, date) ==
    [title |-> title, location_country |-> country, location_city |-> city,
     posted_date |-> date]

\* the k-th job row of the store, on the sentinel so far
DbJob(k, f) ==
    [id |-> JobId(k), employer_id |-> PLACEHOLDER_EMPLOYER_UUID, poster_id |-> NULL,
     title |-> f.title, location_country |-> f.location_country,
     location_city |-> f.location_city, posted_date |-> f.posted_date,
     wordpress_job_id |-> NULL]

\* one job row and what differs from it in one column: the title written another
\* way or another title; no country, an empty, a blank, the same and another
\* country; no city, a blank, the same and another city; no date, and dates 999 and
\* 1000 ms before and after second 1
DbUniverse ==
    << DbFields(TitleA_b, CountryUK, CityL, Ts(1000)),
       DbFields(TitleMessy, CountryUK, CityL, Ts(1000)),
       DbFields(TitleCd, CountryUK, CityL, Ts(1000)),
       DbFields(TitleA_b, NULL, CityL, Ts(1000)),
       DbFields(TitleA_b, EmptyStr, CityL, Ts(1000)),
       DbFields(TitleA_b, Blank, CityL, Ts(1000)),
       DbFields(TitleA_b, CountryUKMessy, CityL, Ts(1000)),
       DbFields(TitleA_b, CountryNL, CityL, Ts(1000)),
       DbFields(TitleA_b, CountryUK, NULL, Ts(1000)),
       DbFields(TitleA_b, CountryUK, Blank, Ts(1000)),
       DbFields(TitleA_b, CountryUK, CityLMessy, Ts(1000)),
       DbFields(TitleA_b, CountryUK, CityM, Ts(1000)),
       DbFields(TitleA_b, CountryUK, CityL, NULL),
       DbFields(TitleA_b, CountryUK, CityL, Ts(1)),
       DbFields(TitleA_b, CountryUK, CityL, Ts(0)),
       DbFields(TitleA_b, CountryUK, CityL, Ts(1999)),
       DbFields(TitleA_b, CountryUK, CityL, Ts(2000)) >>

\* the tables of k rows over DbUniverse (row i created i-th; tables that differ
\* only in which of two rows was created first are taken once)
DbTables(k) ==
    {{DbJob(i, DbUniverse[f[i]]) : i \in 1..k} :
        f \in {g \in [1..k -> DOMAIN DbUniverse] : \A i, j \in 1..k : i < j => g[i] <= g[j]}}

\* one legacy job and what differs from it in one field
WpUniverse ==
    {LegacyJob(Num(11), t, Num(3), NULL, <<CountryUK>>, CityL, WpDate(1)) :
        t \in {TitleA_b, TitleMessy, TitleCd, TitleAb}}
    \cup {LegacyJob(Num(11), TitleA_b, Num(3), NULL, l, CityL, WpDate(1)) :
             l \in {<<>>, <<EmptyStr>>, <<Blank>>, <<CountryUKMessy, CountryNL>>, <<CountryNL>>}}
    \cup {LegacyJob(Num(11), TitleA_b, Num(3), NULL, <<CountryUK>>, c, WpDate(1)) :
             c \in {NULL, EmptyStr, Blank, CityLMessy, CityM}}
    \cup {LegacyJob(Num(11), TitleA_b, Num(3), NULL, <<CountryUK>>, CityL, d) :
             d \in {NULL, BadDate, WpDate(2)}}
    \cup {LegacyJob(Num(11), TitleA_b, a[1], a[2], <<CountryUK>>, CityL, WpDate(1)) :
             a \in {<<Num(9), NULL>>, <<Num(3), Num(9)>>, <<NULL, Str(3)>>, <<NULL, NULL>>}}

\* the placeholder employer and an employer whose row records legacy id 3
FuzzyProfiles ==
    { ProfileRow(DefaultEmployerRow),
      ProfileRow([id |-> uuidv4(1), wordpress_user_id |-> Str(3), email |-> EmailC,
                  full_name |-> <<"u">>, user_type |-> "employer", created_at |-> Now]) }

InitFuzzy ==
    /\ usersFile = File(<<>>) /\ mappingFile = File(<<>>)
    /\ jobsFile \in {File(<<>>), BadFile} \cup {File(<<w>>) : w \in WpUniverse}
    /\ plan = <<"posters">>
    /\ faults \in BOOLEAN
    /\ hasPosterId \in BOOLEAN
    /\ profiles = FuzzyProfiles
    /\ jobs \in UNION {DbTables(k) : k \in 0..MaxDbJobs}
    /\ NoRun

NextFuzzy == PostersStart \/ PostersJob \/ PostersSummary

SpecFuzzy == InitFuzzy /\ [][NextFuzzy]_vars

(***************************************************************************)
(* Claims on the fuzzy match                                               *)
(***************************************************************************)
\* the lowercased words of a text: what is left of it when case, leading and
\* trailing whitespace and the length of whitespace runs are disregarded
RECURSIVE WordsFrom(_, _, _)
WordsFrom(s, i, cur) ==
    IF i > Len(s) THEN (IF cur = <<>> THEN <<>> ELSE <<cur>>)
    ELSE IF s[i] \in WhitespaceChars
         THEN (IF cur = <<>> THEN <<>> ELSE <<cur>>) \o WordsFrom(s, i + 1, <<>>)
         ELSE WordsFrom(s, i + 1, Append(cur, ToLowerChar(s[i])))

Words(s) == WordsFrom(s, 1, <<>>)

Absent(v) == v = NULL \/ v = EmptyStr

\* the legacy job's country: the first entry of its locations
WpCountry(wp) == IF Len(wp.locations) = 0 THEN NULL ELSE wp.locations[1]

\* the legacy job has no city: none, an empty one, or whitespace only
WpNoCity(wp) == Absent(wp.city) \/ Words(wp.city) = <<>>

\* the legacy job has no posted date: none, or text that is not a date
WpNoDate(wp) == Absent(wp.date_posted) \/ wp.date_posted = BadDate

\* the match as the claim words it
ClaimMatch(wp, t) ==
    /\ Words(wp.title) = Words(t.title)
    /\ \/ Absent(WpCountry(wp)) \/ Absent(t.location_country)
       \/ Words(WpCountry(wp)) = Words(t.location_country)
    /\ \/ WpNoCity(wp) \/ Absent(t.location_city)
       \/ Words(wp.city) = Words(t.location_city)
    /\ \/ WpNoDate(wp) \/ t.posted_date = NULL
       \/ Abs(t.posted_date[2] - wp.date_posted[2] * 1000) < 1000

\* the ids of the loaded jobs accepted by ClaimMatch, in loaded order
ClaimMatches(wp) ==
    LET m == SelectIdx(allSupabaseJobs,
                       {i \in DOMAIN allSupabaseJobs : ClaimMatch(wp, allSupabaseJobs[i])}, 1)
    IN [i \in DOMAIN m |-> m[i].id]

\* the rows of the table before the last step, but the row with this id, are as
\* they were
OthersUnchanged(id) == \A j \in last.jobsBefore : j.id # id => j \in jobs

\* the store accepted the update of the last step (at once, or on the retry without
\* poster_id)
StoreAccepted ==
    \/ last.answers[1] = "none"
    \/ last.answers[1] = "poster" /\ last.answers[2] = "none"

NamesCountryOf(t, other) ==
    /\ Words(t.title) = Words(other.title) /\ Words(last.wpJob.title) = Words(t.title)
    /\ ~Absent(t.location_country) /\ ~Absent(other.location_country)
    /\ Words(t.location_country) # Words(other.location_country)
    /\ ~Absent(WpCountry(last.wpJob))
    /\ Words(WpCountry(last.wpJob)) = Words(t.location_country)

\* C8: fuzzy strategy, two target jobs with the same title and different countries,
\* a legacy job with that title naming one of the two countries: in either
\* retrieval order the update the reconciler issues is for the job of that country
\* (it is issued when city and date do not exclude that job, and the row then holds
\* the employer reference once the store accepts it), and the row of the other job
\* is left as it was.
C8_CountryPicksTheJob ==
    JobStep /\ last.script = "posters" /\ Len(allSupabaseJobs) = 2 =>
        \A a, b \in 1..2 :
            LET t == allSupabaseJobs[a]
                other == allSupabaseJobs[b]
            IN a # b /\ NamesCountryOf(t, other) =>
                  /\ IssuedUpdate => last.target = t.id
                  /\ ClaimMatch(last.wpJob, t) => IssuedUpdate
                  /\ IssuedUpdate /\ StoreAccepted =>
                        \E j \in jobs : j.id = t.id /\ j.employer_id = last.value
                  /\ OthersUnchanged(t.id)
                  /\ \E j \in jobs : j.id = other.id /\ j.employer_id = other.employer_id

\* the job of the named country was retrieved second and now holds the employer's
\* profile id; the other job is still on the sentinel
C8_Witness ==
    /\ JobStep /\ last.script = "posters" /\ Len(allSupabaseJobs) = 2
    /\ NamesCountryOf(allSupabaseJobs[2], allSupabaseJobs[1])
    /\ last.outcome = "updated" /\ last.target = allSupabaseJobs[2].id
    /\ \E j \in jobs : /\ j.id = allSupabaseJobs[2].id
                       /\ j.employer_id = uuidv4(1)
    /\ \E j \in jobs : /\ j.id = allSupabaseJobs[1].id
                       /\ j.employer_id = PLACEHOLDER_EMPLOYER_UUID

\* the first job, in retrieval order, among those returned for the last step
FirstRetrieved ==
    allSupabaseJobs[CHOOSE i \in DOMAIN allSupabaseJobs :
                       /\ allSupabaseJobs[i].id \in Range(last.matches)
                       /\ \A k \in 1..(i - 1) : allSupabaseJobs[k].id \notin Range(last.matches)]

JohnLower == <<"j","o","h","n","@","e","x","a","m","p","l","e",".","c","o","m">>
JohnUpper == <<"J","O","H","N","@","E","X","A","M","P","L","E",".","c","o","m">>
JohnMixed == <<" ","J","o","h","n","@","E","x","a","m","p","l","e",".","C","O","M"," ">>
EmailBMessy == <<"\t","B","@","X"," ">>

\* e-mails of stored profiles: plain, with capitals and spaces around, empty, blank
StoredEmails == <<JohnLower, JohnMixed, EmailB, EmptyStr, Blank>>

EmailProfile(k) ==
    ProfileRow([id |-> uuidv4(k), email |-> StoredEmails[k], full_name |-> <<"u">>,
                user_type |-> "employer", created_at |-> Now])

\* the placeholder employer and up to two more profiles
EmailProfileTables ==
    {{ProfileRow(DefaultEmployerRow)} \cup {EmailProfile(k) : k \in ks} :
        ks \in {K \in SUBSET DOMAIN StoredEmails : Cardinality(K) <= 2}}

\* e-mails of the mapping file
MappingEmails == {JohnUpper, JohnMixed, EmailBMessy, EmailUnknown, Blank, EmptyStr, NULL}

EmailMappings ==
    {MappingEntry(Num(11), e) : e \in MappingEmails} \cup {MappingEntry(NULL, JohnUpper)}

\* one job row, imported from legacy job 11
EmailJobs == {[DbJob(1, DbUniverse[1]) EXCEPT !.wordpress_job_id = Num(11)]}

InitEmail ==
    /\ usersFile = File(<<>>) /\ jobsFile = File(<<>>)
    /\ mappingFile \in {File(ms) : ms \in SeqsUpTo(EmailMappings, MaxJobs)} \cup {BadFile}
    /\ plan = <<"email">>
    /\ faults \in BOOLEAN
    /\ hasPosterId = TRUE
    /\ profiles \in EmailProfileTables
    /\ jobs \in {{}, EmailJobs}
    /\ NoRun

NextEmail == EmailStart \/ EmailJob \/ EmailSummary

SpecEmail == InitEmail /\ [][NextEmail]_vars

\* lowercase(trim(e))
LowerOfTrimmed(e) == ToLowerCase(Trim(e))

\* the ids of the loaded profiles that have an e-mail equal to e once both are
\* trimmed and lowercased
ProfilesWithEmail(e) ==
    {allProfiles[i].id : i \in
        {k \in DOMAIN allProfiles :
            /\ ~Absent(allProfiles[k].email)
            /\ LowerOfTrimmed(allProfiles[k].email) = LowerOfTrimmed(e)}}

\* the last step called findProfileByEmail
EmailLookup == JobStep /\ last.script = "email" /\ IssuedUpdate

\* C10: e-mail strategy: findProfileByEmail(e) returns the id of a loaded profile p
\* exactly when lowercase(trim(e)) = lowercase(trim(p.email)) for a profile p that
\* has an e-mail, and null when there is no such profile; so 'JOHN@EXAMPLE.com'
\* resolves to the profile stored with 'john@example.com'.
C10_FindProfileByEmail ==
    EmailLookup =>
        LET e == last.mapping.employer_email
        IN /\ ProfilesWithEmail(e) # {} => last.employerUuid \in ProfilesWithEmail(e)
           /\ ProfilesWithEmail(e) = {} => last.employerUuid = NULL

\* 'JOHN@EXAMPLE.com' of the mapping was resolved to the profile stored with
\* 'john@example.com', and the job is on that profile
C10_Witness ==
    /\ EmailLookup /\ last.outcome = "updated"
    /\ last.mapping.employer_email = JohnUpper
    /\ \E i \in DOMAIN allProfiles :
          /\ allProfiles[i].email = JohnLower
          /\ last.employerUuid = allProfiles[i].id
          /\ \E j \in jobs : j.employer_id = allProfiles[i].id

(***************************************************************************)
(* update-job-posters: the direct-id lookup over a store with profiles     *)
(***************************************************************************)
\* a stored profile that records legacy user id wpid
DirectProfile(k, email, wpid) ==
    ProfileRow([id |-> uuidv4(k), wordpress_user_id |-> wpid, email |-> email,
                full_name |-> <<"u">>, user_type |-> "employer", created_at |-> Now])

\* the placeholder employer alone; with a profile of legacy user 3; with two
\* profiles of legacy user 3; with profiles of legacy users 3 and 4
DirectProfileTables ==
    { {ProfileRow(DefaultEmployerRow)} \cup ps :
        ps \in { {},
                 {DirectProfile(1, EmailA, Str(3))},
                 {DirectProfile(1, EmailA, Str(3)), DirectProfile(2, EmailB, Str(3))},
                 {DirectProfile(1, EmailA, Str(3)), DirectProfile(3, EmailC, Str(4))} } }

\* a legacy job that the one stored job row matches, with its author and its
\* _job_employer_posted_by
DirectJob(author, postedBy) ==
    LegacyJob(Num(11), TitleA_b, author, postedBy, <<CountryUK>>, CityL, WpDate(1))

\* author only; key present and empty; key as a string, another author; key naming
\* a user without profile; key only; neither; key 0; author 0
DirectJobs ==
    { DirectJob(Num(3), NULL),
      DirectJob(Num(3), EmptyStr),
      DirectJob(Num(9), Str(3)),
      DirectJob(Num(3), Num(9)),
      DirectJob(NULL, Num(4)),
      DirectJob(NULL, NULL),
      DirectJob(Num(3), Num(0)),
      DirectJob(Num(0), NULL) }

\* no job row, or the one row the legacy jobs match
DirectJobTables == { {}, {DbJob(1, DbUniverse[1])} }

InitDirect ==
    /\ usersFile = File(<<>>) /\ mappingFile = File(<<>>)
    /\ jobsFile \in {File(js) : js \in SeqsUpTo(DirectJobs, MaxJobs)} \cup {BadFile}
    /\ plan = <<"posters">>
    /\ faults \in BOOLEAN
    /\ hasPosterId \in BOOLEAN
    /\ profiles \in DirectProfileTables
    /\ jobs \in DirectJobTables
    /\ NoRun

NextDirect == PostersStart \/ PostersJob \/ PostersSummary

SpecDirect == InitDirect /\ [][NextDirect]_vars

\* a legacy id field that is present and not empty (0 is WordPress's 'no user')
Present(v) == v # NULL /\ v # EmptyStr /\ v # Num(0)

\* the legacy employer id as the claim words it
ClaimEmployerId(wp) ==
    IF Present(wp.posted_by) THEN wp.posted_by
    ELSE IF Present(wp.author_id) THEN wp.author_id
    ELSE NULL

\* the ids of the loaded profiles whose wordpress_user_id is the string form of v
ProfilesRecording(v) ==
    IF v = NULL THEN {}
    ELSE {allProfiles[i].id : i \in
             {k \in DOMAIN allProfiles : allProfiles[k].wordpress_user_id = Str(v[2])}}

\* the jobs of the file that have a legacy employer id, in file order
JobsWithEmployer ==
    SelectIdx(jobsFile.rows,
              {i \in DOMAIN jobsFile.rows : ClaimEmployerId(jobsFile.rows[i]) # NULL}, 1)

\* C11: direct-id strategy: the legacy employer id of a job is
\* meta._job_employer_posted_by when that key is present and non-empty, otherwise
\* author_id, otherwise none (a job with none is not processed); and the employer
\* reference the reconciler writes for the job is the id of a loaded profile whose
\* wordpress_user_id equals the string form of that legacy id, whenever such a
\* profile exists.
C11_DirectIdLookup ==
    /\ script = "posters" => work = JobsWithEmployer
    /\ JobStep /\ last.script = "posters" =>
          LET id == ClaimEmployerId(last.wpJob)
          IN /\ last.wpEmployerId = id
             /\ IssuedUpdate /\ ProfilesRecording(id) # {} =>
                   last.value \in ProfilesRecording(id)
             /\ last.outcome = "updated" /\ ProfilesRecording(id) # {} =>
                   \E j \in jobs : j.id = last.target /\ j.employer_id \in ProfilesRecording(id)

\* a job whose author has no profile and whose metadata key is the string "3" was
\* put on the profile that records legacy user 3
C11_Witness ==
    /\ JobStep /\ last.script = "posters" /\ last.outcome = "updated"
    /\ last.wpJob.author_id = Num(9) /\ last.wpJob.posted_by = Str(3)
    /\ last.value = uuidv4(1)
    /\ \E j \in jobs : j.id = last.target /\ j.employer_id = uuidv4(1)

(***************************************************************************)
(* Claims on what the reconcilers count                                    *)
(***************************************************************************)
\* two legacy ids that name the same record, whether written as number or string
SameLegacyId(a, b) == Present(a) /\ Present(b) /\ a[2] = b[2]

\* the last step searched a target job for its legacy record and no loaded job
\* is a candidate
NoCandidate ==
    /\ JobStep
    /\ IF last.script = "posters"
       THEN \A i \in DOMAIN allSupabaseJobs : ~ClaimMatch(last.wpJob, allSupabaseJobs[i])
       ELSE /\ Present(last.mapping.job_id)
            /\ \A i \in DOMAIN allSupabaseJobs :
                  ~SameLegacyId(allSupabaseJobs[i].wordpress_job_id, last.mapping.job_id)

\* the job-not-found counter of the running reconciler
NotFoundCount(st) == IF last.script = "posters" THEN st.notFound ELSE st.jobNotFoundInDb

\* C12: for every legacy job (mapping entry) a reconciler searches a target job
\* for and finds no candidate: the job-not-found counter grows by exactly 1, no
\* write is issued and no job row changes, the updated, placeholder and error
\* counters (and every other counter) stay as they were, and the run goes on to the
\* next entry: it ends only after the last entry. (A mapping entry without job id
\* is not searched for: it is counted as skipped.)
C12_JobNotFoundIsSkipped ==
    NoCandidate =>
        /\ NotFoundCount(stats) = NotFoundCount(last.before) + 1
        /\ last.writes = 0
        /\ jobs = last.jobsBefore
        /\ stats.updated = last.before.updated
        /\ stats.usedPlaceholder = last.before.usedPlaceholder
        /\ stats.errors = last.before.errors
        /\ stats.skipped = last.before.skipped
        /\ last.script = "posters" => stats.multipleMatches = last.before.multipleMatches
        /\ last.script = "email" => stats.emailNotFound = last.before.emailNotFound
        /\ script \in {last.script, "idle"}
        /\ script = "idle" => idx = Len(work)

\* a reconciler run has ended with status 0 after a legacy job found no candidate
\* and a later one was updated
C12_Witness ==
    /\ JobStep /\ last.outcome = "updated"
    /\ NotFoundCount(stats) = 1 /\ stats.updated = 1 /\ stats.errors = 0
    /\ script = "idle" /\ exitCode = 0
    /\ Len(work) = 2 /\ idx = 2

\* the first write of the last step failed with the error that names poster_id
PosterIdRefused ==
    JobStep /\ last.script = "posters" /\ IssuedUpdate /\ last.answers[1] = "poster"

\* C13: when the write of {employer_id, poster_id} to a matched job fails with an
\* error that names poster_id, the reconciler issues exactly one further write to
\* the same job, carrying employer_id only. If the retry succeeds the row holds the
\* employer reference (nothing else of it changes) and the job is counted as
\* updated and in posterIdNotAvailable, not as an error; if the retry fails no row
\* changes and the job is counted as an error, once. A first write that does not
\* fail that way is not retried.
C13_PosterIdRetry ==
    /\ PosterIdRefused =>
          /\ last.writes = 2
          /\ last.answers[2] # "not issued"
          /\ last.answers[2] = "none" =>
                /\ stats.updated = last.before.updated + 1
                /\ stats.posterIdNotAvailable = last.before.posterIdNotAvailable + 1
                /\ stats.errors = last.before.errors
                /\ \E b \in last.jobsBefore :
                      /\ b.id = last.target
                      /\ jobs = (last.jobsBefore \ {b})
                                   \cup {[b EXCEPT !.employer_id = last.value]}
          /\ last.answers[2] # "none" =>
                /\ stats.errors = last.before.errors + 1
                /\ stats.updated = last.before.updated
                /\ stats.posterIdNotAvailable = last.before.posterIdNotAvailable
                /\ jobs = last.jobsBefore
    /\ JobStep /\ last.script = "posters" /\ IssuedUpdate /\ ~PosterIdRefused =>
          /\ last.writes = 1
          /\ stats.posterIdNotAvailable = last.before.posterIdNotAvailable

\* the jobs table has no poster_id column: the retry put the job on the employer's
\* profile and the run counted it as updated and in posterIdNotAvailable
C13_Witness ==
    /\ PosterIdRefused /\ last.answers[2] = "none"
    /\ ~hasPosterId
    /\ last.value = uuidv4(1)
    /\ \E j \in jobs : j.id = last.target /\ j.employer_id = uuidv4(1) /\ j.poster_id = NULL
    /\ stats.updated = 1 /\ stats.posterIdNotAvailable = 1 /\ stats.errors = 0

(***************************************************************************)
(* Claims on how the scripts end                                           *)
(***************************************************************************)
\* the running script has done every pass of its loop
LoopDone ==
    IF script = "bulk" THEN idx * BatchBound >= Len(usersFile.rows)
    ELSE IF script = "upload" THEN idx = Len(usersFile.rows)
    ELSE idx = Len(work)

\* this step is a loader or a reconciler printing its summary and ending
SummaryStep ==
    /\ script \in {"bulk", "upload", "posters", "email"}
    /\ LoopDone
    /\ script' = "idle"

\* C14: a loader or reconciler run that reaches its final summary exits with status
\* 1 if and only if its error counter is greater than 0 then, and with status 0
\* otherwise, whatever its duplicate, skipped, not-found and placeholder counters.
C14_ExitStatusFromErrors ==
    [][SummaryStep =>
          /\ exitCode' \in {0, 1}
          /\ exitCode' = 1 <=> stats.errors > 0
          /\ stats' = stats]_vars

\* a loader ended with status 1 after the store refused a request, and the
\* reconciler after it ended with status 0 although it counted a job not found and
\* a placeholder
C14_Witness ==
    /\ Len(runLog) = 3
    /\ runLog[1].exit = 1 /\ runLog[1].stats.errors > 0
    /\ runLog[3].script = "posters" /\ runLog[3].exit = 0
    /\ runLog[3].stats.errors = 0
    /\ runLog[3].stats.notFound > 0 /\ runLog[3].stats.usedPlaceholder > 0
    /\ idx = Len(work)

(***************************************************************************)
(* Claims on the loaders' loop                                             *)
(***************************************************************************)
\* the users the running loader submits in its next pass: the next batch of the
\* bulk loader, the next user of the per-user loader
NextRecords ==
    IF script = "bulk"
    THEN SubSeq(usersFile.rows, idx * BatchBound + 1,
                Min((idx + 1) * BatchBound, Len(usersFile.rows)))
    ELSE SubSeq(usersFile.rows, idx + 1, Min(idx + 1, Len(usersFile.rows)))

\* this step attempts the next batch of the bulk loader and the run goes on; a
\* batch the store rejects changes no row and is counted as errors (as duplicates
\* when the store reports a duplicate key)
BulkBatchAttempted ==
    /\ ~LoopDone
    /\ idx' = idx + 1
    /\ script' = "bulk"
    /\ storeErrs' # storeErrs =>
          /\ profiles' = profiles
          /\ stats'.inserted = stats.inserted
          /\ \/ stats'.errors = stats.errors + Len(NextRecords)
             \/ stats'.duplicates = stats.duplicates + Len(NextRecords)
    /\ stats'.errors # stats.errors => storeErrs' # storeErrs

\* C15: in the Bulk Loader a batch whose upsert the store rejects increases the
\* error counter and does not stop the run: every step of a run is the attempt of
\* the next batch, in input order and once, whatever became of the earlier ones,
\* until the summary, which every run reaches after the last batch.
C15_EveryBatchAttempted ==
    [][script = "bulk" => \/ BulkBatchAttempted
                          \/ LoopDone /\ script' = "idle"]_vars

\* the same for the users files in which every registration date parses
BulkRunsThroughWhenDatesParse ==
    [][script = "bulk" /\ (\A i \in DOMAIN usersFile.rows : usersFile.rows[i].registered # BadDate)
          => \/ BulkBatchAttempted
             \/ LoopDone /\ script' = "idle"]_vars

\* the next records hold a registration date that does not parse
MalformedDateNext ==
    /\ script \in {"bulk", "upload"}
    /\ \E i \in DOMAIN NextRecords : NextRecords[i].registered = BadDate

\* C17: for a legacy user whose registration timestamp cannot be parsed,
\* transformUser returns a profile whose created_at is the current time, the
\* record is submitted to the store, and the run goes on with the later records
\* and batches: the malformed date does not end it.
C17_MalformedDateIsNotFatal ==
    [][MalformedDateNext =>
          /\ idx' = idx + 1
          /\ script' = script
          /\ last'.kind = "transform"
          /\ \A i \in DOMAIN last'.items :
                last'.items[i].user.registered = BadDate =>
                    last'.items[i].row.created_at = Now]_vars

\* the same for upload-users-to-supabase.js alone, whose transformUser catches
MalformedDateIsNotFatalInUpload ==
    [][MalformedDateNext /\ script = "upload" =>
          /\ idx' = idx + 1
          /\ script' = script
          /\ last'.kind = "transform"
          /\ \A i \in DOMAIN last'.items :
                last'.items[i].user.registered = BadDate =>
                    last'.items[i].row.created_at = Now]_vars

\* the e-mail of every record the loader submits next is already persisted, and the
\* store answers every request on its merits
DuplicatesNext ==
    /\ script \in {"bulk", "upload"}
    /\ ~faults
    /\ NextRecords # <<>>
    /\ \A i \in DOMAIN NextRecords : \E p \in profiles : p.email = NextRecords[i].email

\* the loader's duplicate counter: duplicates (bulk), skipped (per-user)
DuplicateCount(st) == IF "duplicates" \in DOMAIN st THEN st.duplicates ELSE st.skipped

\* this step counted the next records as duplicates and the run goes on
CountedAsDuplicates ==
    /\ DuplicateCount(stats') = DuplicateCount(stats) + Len(NextRecords)
    /\ stats'.inserted = stats.inserted
    /\ stats'.errors = stats.errors
    /\ script' = script
    /\ idx' = idx + 1

\* C16: when a loader processes a legacy user whose e-mail is already persisted in
\* the store, the outcome is recorded in the loader's duplicate counter (duplicates
\* / skipped) and in neither the inserted nor the error counter, and the run
\* continues with the following records.
C16_DuplicateIsCounted ==
    [][DuplicatesNext => CountedAsDuplicates]_vars

\* the same for upload-users-to-supabase.js alone, which looks the user up first
DuplicateIsSkippedInUpload ==
    [][DuplicatesNext /\ script = "upload" => CountedAsDuplicates]_vars

\* the script the operator starts next
NextScript == IF script = "idle" /\ plan # <<>> THEN Head(plan) ELSE "none"

\* an input file of the script started next is missing or is not JSON
BadInputNext ==
    \/ NextScript \in {"bulk", "upload", "wpids"} /\ ~usersFile.ok
    \/ NextScript = "import" /\ (~jobsFile.ok \/ ~usersFile.ok)
    \/ NextScript = "posters" /\ ~jobsFile.ok
    \/ NextScript = "email" /\ ~mappingFile.ok

\* this step ends the run with status 1, no table read and no row written
EndsBeforeTheStore ==
    /\ script' = "idle"
    /\ exitCode' = 1
    /\ Len(runLog') = Len(runLog) + 1
    /\ profiles' = profiles /\ jobs' = jobs
    /\ allProfiles' = allProfiles /\ allSupabaseJobs' = allSupabaseJobs
    /\ storeErrs' = storeErrs

\* C18: for every pipeline script (user loaders, job import, reconcilers), when the
\* input JSON file is missing or malformed the run terminates with a non-zero exit
\* status and has issued no read or write to the store.
C18_BadInputIsFatal ==
    [][BadInputNext => EndsBeforeTheStore]_vars

\* the same for the loaders and the reconcilers, without the job import
BadInputIsFatalButInImport ==
    [][BadInputNext /\ NextScript # "import" => EndsBeforeTheStore]_vars

\* the script started next is a reconciler
ReconcilerNext == NextScript \in {"posters", "email"}

\* a reconciler is running
ReconcilerRuns == script \in {"posters", "email"}

\* C19: a reconciler run that loads zero jobs from the target store ends with exit
\* status 1 before it processes any legacy job and without any update; and a
\* reconciler run ends before its summary only on an unreadable input file, a
\* failed table load or that empty store: every pass of the loop over the legacy
\* records, whatever the record and whatever the store answers, is followed by the
\* next pass or by the summary. (Credentials are checked before anything the model
\* starts with.)
C19_OnlyFatalConditionsEndTheRun ==
    [][/\ ReconcilerNext /\ jobs = {} =>
             /\ script' = "idle" /\ exitCode' = 1
             /\ jobs' = jobs /\ last' = last /\ idx' = 0
       /\ ReconcilerNext /\ script' = "idle" =>
             \/ BadInputNext
             \/ storeErrs' # storeErrs
             \/ jobs = {}
       /\ ReconcilerRuns /\ ~LoopDone =>
             /\ script' = script
             /\ idx' = idx + 1
       /\ ReconcilerRuns /\ LoopDone => script' = "idle"]_vars

\* a reconciler found its input file and both tables readable, the jobs table
\* empty, and ended with status 1 with none of its legacy records processed
C19_Witness ==
    /\ Len(runLog) = 3 /\ runLog[3].script \in {"posters", "email"}
    /\ runLog[3].exit = 1
    /\ runLog[3].storeErrs = runLog[2].storeErrs
    /\ jobs = {} /\ allProfiles # <<>> /\ allSupabaseJobs = <<>>
    /\ work # <<>> /\ idx = 0
    /\ runLog[3].stats.total > 0 /\ runLog[3].stats.errors = 0

(***************************************************************************)
(* A reconciler run twice over one input file                              *)
(***************************************************************************)
\* legacy jobs that the stored rows match: of legacy user 3, and of a user
\* without profile
RerunJobs ==
    { DirectJob(Num(3), NULL),
      DirectJob(Num(9), NULL) }

\* mapping entries for legacy job 11: an employer with a profile, and one without
RerunMappings ==
    { MappingEntry(Num(11), EmailA),
      MappingEntry(Num(11), EmailUnknown) }

\* the placeholder employer with one profile of legacy user 3, or with two
RerunProfileTables ==
    { {ProfileRow(DefaultEmployerRow)} \cup ps :
        ps \in { {DirectProfile(1, EmailA, Str(3))},
                 {DirectProfile(1, EmailA, Str(3)), DirectProfile(2, EmailB, Str(3))} } }

\* no job row, or two rows that the same legacy job matches, imported from one
\* legacy job or from two
RerunJobTables ==
    { {} }
    \cup { {[DbJob(1, DbUniverse[1]) EXCEPT !.wordpress_job_id = Num(11)],
             [DbJob(2, DbUniverse[2]) EXCEPT !.wordpress_job_id = w]} :
              w \in {Num(11), Num(12)} }

\* longest input file of a run-twice scenario in which the store may fail
MaxFaultyRecords == 1

InitRerun ==
    /\ usersFile = File(<<>>)
    /\ jobsFile \in {File(js) : js \in SeqsUpTo(RerunJobs, MaxJobs)} \cup {BadFile}
    /\ mappingFile \in {File(ms) : ms \in SeqsUpTo(RerunMappings, MaxJobs)} \cup {BadFile}
    /\ plan \in {<<"posters", "posters">>, <<"email", "email">>}
    /\ plan[1] = "posters" => mappingFile = File(<<>>)
    /\ plan[1] = "email" => jobsFile = File(<<>>)
    /\ faults \in BOOLEAN
    /\ hasPosterId \in BOOLEAN
    /\ plan[1] = "email" => hasPosterId
    /\ profiles \in RerunProfileTables
    /\ faults => /\ Len(jobsFile.rows) + Len(mappingFile.rows) <= MaxFaultyRecords
                 /\ Cardinality(profiles) = 2
    /\ jobs \in RerunJobTables
    /\ NoRun

NextRerun ==
    \/ PostersStart \/ PostersJob \/ PostersSummary
    \/ EmailStart \/ EmailJob \/ EmailSummary

SpecRerun == InitRerun /\ [][NextRerun]_vars

\* the ids of a sequence of rows, in its order
IdsOf(rows) == [i \in DOMAIN rows |-> rows[i].id]

\* each job's employer_id
EmployerIds(J) == {<<j.id, j.employer_id>> : j \in J}

\* the same reconciler has run twice; both runs got through to their summary with
\* status 0 (no load failed and no update was lost), and the store returned the
\* profiles and the jobs in the same order to both
RanTwiceAlike ==
    /\ Len(runLog) = 2
    /\ runLog[1].script = runLog[2].script
    /\ runLog[1].exit = 0 /\ runLog[2].exit = 0
    /\ runLog[1].loadedProfiles = runLog[2].loadedProfiles
    /\ IdsOf(runLog[1].loadedJobs) = IdsOf(runLog[2].loadedJobs)

\* C20: when the same reconciler has run twice over the same input file, with the
\* profiles table unchanged, the same retrieval order and no store error reported,
\* every job's employer_id after the second run is its employer_id after the
\* first run
C20_ReconcilerIdempotent ==
    RanTwiceAlike =>
        /\ runLog[1].nProfiles = runLog[2].nProfiles
        /\ EmployerIds(jobs) = EmployerIds(runLog[1].jobs)
        /\ runLog[2].jobs = jobs

\* the posters reconciler has run twice over two legacy jobs of different employers
\* and two rows that both match; the first run moved a row off the placeholder
C20_Witness ==
    /\ RanTwiceAlike
    /\ runLog[2].script = "posters"
    /\ Len(work) = 2 /\ work[1] # work[2]
    /\ Cardinality(jobs) = 2
    /\ runLog[2].stats.multipleMatches = 2
    /\ runLog[2].stats.updated = 2
    /\ \E j \in runLog[1].jobs : j.employer_id \notin {PLACEHOLDER_EMPLOYER_UUID, NULL}
    /\ EmployerIds(runLog[1].jobs) # {<<j.id, PLACEHOLDER_EMPLOYER_UUID>> : j \in jobs}

\* the same for the e-mail reconciler: two mapping entries for one job
C20_WitnessEmail ==
    /\ RanTwiceAlike
    /\ runLog[2].script = "email"
    /\ Len(work) = 2 /\ work[1] # work[2]
    /\ runLog[2].stats.updated = 2
    /\ \E j \in runLog[1].jobs : j.employer_id \notin {PLACEHOLDER_EMPLOYER_UUID, NULL}

\* a state in which the store answered every request of both runs and still the
\* second run moved a job: it was given the rows in another order
RerunInAnotherOrderDiffers ==
    /\ Len(runLog) = 2
    /\ runLog[1].script = runLog[2].script
    /\ runLog[1].exit = 0 /\ runLog[2].exit = 0
    /\ EmployerIds(jobs) # EmployerIds(runLog[1].jobs)
    /\ ~faults

(***************************************************************************)
(* What a reconciler writes                                                *)
(***************************************************************************)
\* the columns the running reconciler's update names
WrittenColumns ==
    IF script = "posters" THEN {"employer_id", "poster_id"} ELSE {"employer_id"}

\* row j is one that the record processed next selects: by title, location, city
\* and date in the fuzzy script, by wordpress_job_id in the e-mail script
SelectedByNextRecord(j) ==
    /\ ~LoopDone
    /\ IF script = "posters"
       THEN JobMatches(work[idx + 1], j)
       ELSE /\ j.wordpress_job_id # NULL /\ work[idx + 1].job_id # NULL
            /\ JsToString(j.wordpress_job_id) = JsToString(work[idx + 1].job_id)

C21_WitnessEmail ==
    /\ last.kind = "job" /\ last.script = "email" /\ last.outcome = "updated"
    /\ Cardinality(jobs) = 2
    /\ jobs # last.jobsBefore
    /\ \E j \in jobs : /\ j.id = last.target
                       /\ j.employer_id # PLACEHOLDER_EMPLOYER_UUID
                       /\ j.poster_id = NULL

(***************************************************************************)
(* update-jobs-by-email: which job a mapping entry writes                  *)
(***************************************************************************)
\* what the jobs table records as a row's legacy job: 11 as a number or as a
\* string, 12, or nothing
StoredJobIds == {Num(11), Str(11), Num(12), NULL}

\* mapping entries for job 11 (number or string), 12, 13 and for no job, and
\* entries for job 11 with an unknown e-mail and with none
ByJobIdMappings ==
    {MappingEntry(j, EmailA) : j \in {Num(11), Str(11), Num(12), Num(13), NULL}}
    \cup {MappingEntry(Num(11), EmailUnknown), MappingEntry(Num(11), NULL)}

\* no row, or two rows
ByJobIdTables ==
    { {} } \cup
    { {[DbJob(1, DbUniverse[1]) EXCEPT !.wordpress_job_id = w[1]],
       [DbJob(2, DbUniverse[3]) EXCEPT !.wordpress_job_id = w[2]]} :
          w \in StoredJobIds \X StoredJobIds }

InitByJobId ==
    /\ usersFile = File(<<>>) /\ jobsFile = File(<<>>)
    /\ mappingFile \in {File(ms) : ms \in SeqsUpTo(ByJobIdMappings, MaxJobs)} \cup {BadFile}
    /\ plan = <<"email">>
    /\ faults \in BOOLEAN
    /\ hasPosterId = TRUE
    /\ profiles = {ProfileRow(DefaultEmployerRow), DirectProfile(1, EmailA, Str(3))}
    /\ jobs \in ByJobIdTables
    /\ NoRun

NextByJobId == EmailStart \/ EmailJob \/ EmailSummary

SpecByJobId == InitByJobId /\ [][NextByJobId]_vars

\* the positions of the loaded jobs whose wordpress_job_id, as a string, is that
\* of legacy job id v
LoadedWithJobId(v) ==
    {i \in DOMAIN allSupabaseJobs :
        /\ allSupabaseJobs[i].wordpress_job_id # NULL
        /\ v # NULL
        /\ allSupabaseJobs[i].wordpress_job_id[2] = v[2]}

\* the first of them
FirstLoadedWithJobId(v) ==
    allSupabaseJobs[CHOOSE i \in LoadedWithJobId(v) : \A k \in LoadedWithJobId(v) : i <= k]

\* the last step processed a mapping entry of the e-mail script
EmailEntryStep == last.kind = "job" /\ last.script = "email"

\* the rows that the last step changed
ChangedByLastStep == {j \in jobs : j \notin last.jobsBefore}

\* C22: e-mail strategy: a mapping entry issues at most one update; an entry with
\* an e-mail and a job_id j for which some loaded job has wordpress_job_id equal to
\* j as strings issues exactly one, for the first such job in loaded order; and
\* whatever row a step changes is that job, so no job with another
\* wordpress_job_id and no second job is written
C22_OneJobPerMappingEntry ==
    EmailEntryStep =>
        LET m == last.mapping
        IN /\ last.writes <= 1
           /\ Cardinality(ChangedByLastStep) <= 1
           /\ (~Absent(m.employer_email) /\ LoadedWithJobId(m.job_id) # {}) =>
                 /\ last.writes = 1
                 /\ last.target = FirstLoadedWithJobId(m.job_id).id
           /\ \A j \in ChangedByLastStep :
                 /\ LoadedWithJobId(m.job_id) # {}
                 /\ j.id = FirstLoadedWithJobId(m.job_id).id
                 /\ j.wordpress_job_id[2] = m.job_id[2]

\* two loaded jobs record legacy job 11, one as a number and one as a string; an
\* entry naming "11" moved the one loaded first and left the other
C22_Witness ==
    /\ EmailEntryStep /\ last.outcome = "updated"
    /\ last.mapping.job_id = Str(11)
    /\ Cardinality(LoadedWithJobId(Str(11))) = 2
    /\ allSupabaseJobs[1].wordpress_job_id = Num(11)
    /\ allSupabaseJobs[1].id = JobId(2)
    /\ ChangedByLastStep = {j \in jobs : j.id = JobId(2)}
    /\ \E j \in ChangedByLastStep : j.employer_id = uuidv4(1)

(***************************************************************************)
(* transformUser: the name of a profile                                    *)
(***************************************************************************)
\* first names: none, empty, blank, plain, with spaces around
FirstNames == {NULL, EmptyStr, Blank, <<"J">>, <<" ", "J", " ">>}
LastNames == {NULL, EmptyStr, <<"D">>}
DisplayNames == {NULL, EmptyStr, <<"N">>}

\* the meta object: none, one with a first name only, one with a last name only
Metas == { NoMeta,
           [first_name |-> <<"M">>, last_name |-> NULL],
           [first_name |-> NULL, last_name |-> <<"L">>] }

NamedUser(first, lastName, display, meta) ==
    [LegacyUser(Num(1), EmailA, <<>>, NULL) EXCEPT
        !.first_name = first, !.last_name = lastName, !.display_name = display,
        !.meta = meta]

NamedUsers ==
    {NamedUser(f, l, d, m) : f \in FirstNames, l \in LastNames, d \in DisplayNames, m \in Metas}

InitNames ==
    /\ usersFile \in {File(<<u>>) : u \in NamedUsers}
    /\ jobsFile = File(<<>>) /\ mappingFile = File(<<>>)
    /\ faults = FALSE
    /\ hasPosterId = TRUE
    /\ profiles = {} /\ jobs = {}
    /\ plan \in {<<"bulk">>, <<"upload">>}
    /\ NoRun

NextNames ==
    \/ BulkStart \/ BulkBatch \/ BulkSummary
    \/ UploadStart \/ UploadUser \/ UploadSummary

SpecNames == InitNames /\ [][NextNames]_vars

\* a text that is there and has at least one character
NonEmptyText(v) == v # NULL /\ v # EmptyStr

\* the user's first (last) name: the field of the user, else the one of its meta
NameOf(u, field) ==
    IF NonEmptyText(u[field]) THEN u[field]
    ELSE IF NonEmptyText(u.meta[field]) THEN u.meta[field]
    ELSE EmptyStr

\* first name, a space, last name, without the spaces at either end
TrimmedNames(u) == Trim(NameOf(u, "first_name") \o <<" ">> \o NameOf(u, "last_name"))

\* display name, else username
DisplayOrUsername(u) ==
    IF NonEmptyText(u.display_name) THEN u.display_name ELSE u.username

\* the last step transformed legacy users
TransformStep == last.kind = "transform"

\* C23 as stated: full_name is the trimmed concatenation of first and last name
\* when at least one of them is non-empty, and otherwise the display name, or the
\* username when the display name is empty too
C23_FullNameAsStated ==
    TransformStep =>
        \A i \in DOMAIN last.items :
            LET u == last.items[i].user
            IN last.items[i].row.full_name =
                  IF NonEmptyText(NameOf(u, "first_name")) \/ NonEmptyText(NameOf(u, "last_name"))
                  THEN TrimmedNames(u)
                  ELSE DisplayOrUsername(u)

\* C23: full_name is the trimmed concatenation of first and last name when that
\* text is non-empty; when it is empty (both names empty, or nothing but spaces)
\* full_name is the display name, or the username when the display name is empty
C23_FullName ==
    TransformStep =>
        \A i \in DOMAIN last.items :
            LET u == last.items[i].user
            IN last.items[i].row.full_name =
                  IF NonEmptyText(TrimmedNames(u))
                  THEN TrimmedNames(u)
                  ELSE DisplayOrUsername(u)

\* a user whose first name is blank and whose last name is empty got the display
\* name
C23_Witness ==
    /\ TransformStep
    /\ last.items[1].user.first_name = Blank
    /\ last.items[1].user.last_name = EmptyStr
    /\ last.items[1].user.meta = NoMeta
    /\ last.items[1].user.display_name = <<"N">>
    /\ last.items[1].row.full_name = <<"N">>
    /\ \E p \in profiles : p.full_name = <<"N">>

\* a first name with spaces around and a last name: 'J D'
C23_WitnessBoth ==
    /\ TransformStep
    /\ last.items[1].user.first_name = <<" ", "J", " ">>
    /\ last.items[1].user.last_name = <<"D">>
    /\ last.items[1].row.full_name = <<"J", " ", " ", "D">>

(***************************************************************************)
(* The paginated table loads                                               *)
(***************************************************************************)
\* the step starts a reconciler that reads its input file and gets every page of
\* both tables
LoadsBothTables == ReconcilerNext /\ ~BadInputNext /\ storeErrs' = storeErrs

\* the ranges asked: the first starts at row 0, each holds pageSize rows, and each
\* starts right after the one before
ContiguousRanges(rq) ==
    /\ rq # <<>> /\ rq[1].from = 0
    /\ \A k \in DOMAIN rq : rq[k].to = rq[k].from + pageSize - 1
    /\ \A k \in DOMAIN rq : k > 1 => rq[k].from = rq[k - 1].to + 1

\* got is a table of n rows loaded whole: each row once, in the order the store
\* retrieves them, with pages asked up to the first that is not full (an empty one
\* when n is a multiple of the page size)
LoadedWhole(got, table, load) ==
    LET n == Cardinality(table)
        rq == load.requests
    IN /\ got = load.order
       /\ Len(got) = n
       /\ Range(got) = table
       /\ ContiguousRanges(rq)
       /\ Len(rq) = (n \div pageSize) + 1
       /\ \A k \in DOMAIN rq : k < Len(rq) => rq[k].got = pageSize
       /\ rq[Len(rq)].got = n % pageSize

\* C24: loadAllProfiles and loadAllSupabaseJobs, over a table of n rows that does
\* not change during the load, return every row exactly once in retrieval order,
\* for n = 0 and for n a multiple of the page size too (the load then ends on an
\* empty page), and ask the pages in increasing, contiguous, non-overlapping
\* ranges
C24_LoadAllReturnsEveryRowOnce ==
    [][LoadsBothTables =>
          /\ LoadedWhole(allProfiles', profiles, pageLog'.profiles)
          /\ LoadedWhole(allSupabaseJobs', jobs, pageLog'.jobs)]_vars

\* a reconciler loaded three profiles in a full page and a page of one row, and two
\* jobs in a full page followed by an empty page
C24_Witness ==
    /\ ReconcilerRuns
    /\ Len(allProfiles) = 3 /\ Cardinality(profiles) = 3
    /\ Len(pageLog.profiles.requests) = 2
    /\ pageLog.profiles.requests[2].from = pageSize
    /\ pageLog.profiles.requests[2].got = 1
    /\ Len(allSupabaseJobs) = 2 /\ Cardinality(jobs) = 2
    /\ Len(pageLog.jobs.requests) = 2
    /\ pageLog.jobs.requests[1].got = pageSize
    /\ pageLog.jobs.requests[2].got = 0

\* the jobs table was empty: one page asked, none returned
C24_WitnessEmpty ==
    /\ Len(runLog) >= 1 /\ runLog[Len(runLog)].script \in {"posters", "email"}
    /\ jobs = {} /\ allSupabaseJobs = <<>>
    /\ Len(pageLog.jobs.requests) = 1
    /\ pageLog.jobs.requests[1].got = 0
    /\ Len(allProfiles) >= 2

(***************************************************************************)
(* The WordPress-user-id update, run twice                                 *)
(***************************************************************************)
\* legacy users 1, 2 and 3, and a user 5 with user 2's e-mail in capitals
WpidsUsers ==
    { LegacyUser(Num(1), EmailA, <<>>, NULL),
      LegacyUser(Num(2), EmailB, <<>>, NULL),
      LegacyUser(Num(5), EmailBUpper, <<>>, NULL),
      LegacyUser(Str(3), EmailC, <<>>, NULL) }

\* stored profiles: user 1's without legacy id, user 2's with its e-mail in capitals,
\* user 3's with the right legacy id, and one that no legacy user has the e-mail of
WpidsProfiles ==
    { DirectProfile(1, EmailA, NULL),
      DirectProfile(2, EmailBUpper, NULL),
      DirectProfile(3, EmailC, Str(3)),
      DirectProfile(4, EmailUnknown, Str(7)) }

InitWpids ==
    /\ usersFile \in {File(us) : us \in SeqsUpTo(WpidsUsers, MaxUsers)} \cup {BadFile}
    /\ jobsFile = File(<<>>) /\ mappingFile = File(<<>>)
    /\ faults \in BOOLEAN
    /\ hasPosterId = TRUE
    /\ profiles \in {P \in SUBSET WpidsProfiles : Cardinality(P) <= 3}
    /\ jobs = {}
    /\ plan = <<"wpids", "wpids">>
    /\ NoRun

NextWpids == WpidsStart \/ WpidsUpdate \/ WpidsSummary

SpecWpids == InitWpids /\ [][NextWpids]_vars

\* the positions in the users file of the legacy users whose e-mail, lowercased
\* and trimmed, is that of profile p
LegacyUsersOf(p) ==
    {i \in DOMAIN usersFile.rows :
        LowerOfTrimmed(usersFile.rows[i].email) = LowerOfTrimmed(p.email)}

\* the last of them in the file
LastLegacyUserOf(p) ==
    usersFile.rows[CHOOSE i \in LegacyUsersOf(p) : \A k \in LegacyUsersOf(p) : k <= i]

\* the first run of the update script ended with zero errors
FirstRunClean == Len(runLog) >= 1 /\ runLog[1].script = "wpids" /\ runLog[1].exit = 0

\* the updates a run issued: each counts as updated or as an error
UpdatesIssued(st) == st.updated + st.errors

\* C25: after a run of the update script that ended with zero errors, every profile
\* whose normalized e-mail is that of a legacy user has that user's id, as a string,
\* as wordpress_user_id (the id of the last such user of the file when several
\* share the e-mail); a profile with no matching legacy e-mail is as it was loaded;
\* and a second run on the same input issues no update
C25_WordPressIdsFilled ==
    FirstRunClean =>
        /\ \A p \in profiles :
              IF LegacyUsersOf(p) # {}
              THEN p.wordpress_user_id = Str(LastLegacyUserOf(p).id[2])
              ELSE p \in Range(runLog[1].loadedProfiles)
        /\ Cardinality(profiles) = Len(runLog[1].loadedProfiles)
        /\ script = "wpids" => work = <<>>
        /\ Len(runLog) = 2 => /\ UpdatesIssued(runLog[2].stats) = 0
                               /\ runLog[2].storeErrs - runLog[1].storeErrs <= 1

\* the first run filled in two profiles, one stored with its e-mail in capitals,
\* and left alone one that no legacy user matches; the second run found both set
C25_Witness ==
    /\ Len(runLog) = 2 /\ FirstRunClean /\ runLog[2].exit = 0
    /\ runLog[1].stats.updated = 2 /\ runLog[1].stats.notFound = 1
    /\ runLog[2].stats.alreadySet = 2 /\ runLog[2].stats.updated = 0
    /\ \E p \in profiles : p.email = EmailBUpper /\ p.wordpress_user_id = Str(2)
    /\ \E p \in profiles : p.email = EmailA /\ p.wordpress_user_id = Str(1)
    /\ \E p \in profiles : p.email = EmailUnknown /\ p.wordpress_user_id = Str(7)

(***************************************************************************)
(* The reconcilers' counters                                               *)
(***************************************************************************)
\* the four outcomes of a record: skipped, not found, updated, error
OutcomeCounts(st) ==
    <<st.skipped,
      IF "notFound" \in DOMAIN st THEN st.notFound ELSE st.jobNotFoundInDb,
      st.updated, st.errors>>

SumOfOutcomes(st) ==
    OutcomeCounts(st)[1] + OutcomeCounts(st)[2] + OutcomeCounts(st)[3] + OutcomeCounts(st)[4]

\* from a to b exactly one of the four counters grew, by one
ExactlyOneOutcome(a, b) ==
    \E k \in 1..4 :
        /\ OutcomeCounts(b)[k] = OutcomeCounts(a)[k] + 1
        /\ \A m \in (1..4) \ {k} : OutcomeCounts(b)[m] = OutcomeCounts(a)[m]

C26_WitnessPosters ==
    /\ Len(runLog) >= 1 /\ runLog[Len(runLog)].script = "posters"
    /\ script = "idle" /\ idx = 2 /\ Len(work) = 2
    /\ stats.notFound = 1 /\ stats.errors = 1 /\ stats.usedPlaceholder = 1
    /\ stats.updated = 0

(***************************************************************************)
(* The bulk loader over a store that an earlier export filled              *)
(***************************************************************************)
\* legacy users 1, 2 and 3, each with its own e-mail
ReloadUsers ==
    { LegacyUser(Num(1), EmailA, <<>>, NULL),
      LegacyUser(Num(2), EmailB, <<>>, NULL),
      LegacyUser(Num(3), EmailC, <<>>, NULL) }

\* the store: empty; holding user 2 as the file has it; holding user 1 as loaded
\* when its e-mail was another
ReloadTables ==
    { {},
      {ProfileRow(BulkTransformUser(LegacyUser(Num(2), EmailB, <<>>, NULL)))},
      {ProfileRow(BulkTransformUser(LegacyUser(Num(1), EmailUnknown, <<>>, NULL)))} }

InitReload ==
    /\ usersFile \in {File(us) : us \in SeqsUpTo(ReloadUsers, MaxUsers)} \cup {BadFile}
    /\ jobsFile = File(<<>>) /\ mappingFile = File(<<>>)
    /\ faults \in BOOLEAN
    /\ hasPosterId = TRUE
    /\ profiles \in ReloadTables
    /\ jobs = {}
    /\ plan = <<"bulk">>
    /\ NoRun

NextReload == BulkStart \/ BulkBatch \/ BulkSummary

SpecReload == InitReload /\ [][NextReload]_vars

\* the bulk loader's run has ended with status 0
BulkReportedSuccess ==
    Len(runLog) = 1 /\ runLog[1].script = "bulk" /\ runLog[1].exit = 0

\* every legacy user of the file has a profile with its e-mail
EveryUserPersisted ==
    \A i \in DOMAIN usersFile.rows : \E p \in profiles : p.email = usersFile.rows[i].email

\* C27: when a bulk loader run has ended with status 0, every legacy user of the
\* input has a profile with its e-mail in the store: no batch is left unpersisted
\* by a run that reports success
C27_SuccessMeansPersisted ==
    BulkReportedSuccess => EveryUserPersisted

\* the same for the runs in which no batch was counted as duplicates
SuccessMeansPersistedWithoutDuplicates ==
    BulkReportedSuccess /\ runLog[1].stats.duplicates = 0 => EveryUserPersisted

(***************************************************************************)
(* The rows one fuzzy-strategy run writes                                  *)
(***************************************************************************)
\* legacy jobs of two employers under one title written two ways, one under
\* another title, and one without employer
TargetLegacyJobs ==
    { LegacyJob(Num(11), TitleA_b, Num(3), NULL, <<CountryUK>>, CityL, WpDate(1)),
      LegacyJob(Num(12), TitleMessy, Num(9), NULL, <<CountryUK>>, CityL, WpDate(1)),
      LegacyJob(Num(13), TitleCd, Num(3), NULL, <<CountryUK>>, CityL, WpDate(1)),
      LegacyJob(Num(14), TitleCd, NULL, NULL, <<CountryUK>>, CityL, WpDate(1)) }

\* the job rows of the first three titles of DbUniverse, up to MaxDbJobs of them
TargetTables ==
    UNION {{{DbJob(i, DbUniverse[f[i]]) : i \in 1..k} :
              f \in {g \in [1..k -> 1..3] : \A i, j \in 1..k : i < j => g[i] <= g[j]}} :
           k \in 0..MaxDbJobs}

InitTargets ==
    /\ usersFile = File(<<>>) /\ mappingFile = File(<<>>)
    /\ jobsFile \in {File(js) : js \in SeqsUpTo(TargetLegacyJobs, MaxJobs)} \cup {BadFile}
    /\ plan = <<"posters">>
    /\ faults \in BOOLEAN
    /\ hasPosterId \in BOOLEAN
    /\ profiles = FuzzyProfiles
    /\ jobs \in TargetTables
    /\ NoRun

NextTargets == PostersStart \/ PostersJob \/ PostersSummary

SpecTargets == InitTargets /\ [][NextTargets]_vars

\* the updates of the fuzzy-strategy run that took effect so far: the position of
\* the legacy job in the processed list, the row written and the value
FuzzyWrites ==
    IF last.kind = "job" /\ last.script = "posters" THEN last.targets ELSE <<>>

\* the title of the legacy job of a write, normalised
WrittenFor(w) == normalizeString(work[w.record].title)

\* C28 as stated: within one fuzzy-strategy run no job row is written for more than
\* one legacy job: two legacy jobs that have matches are written to two distinct
\* rows
C28_DistinctTargetsAsStated ==
    \A a, b \in DOMAIN FuzzyWrites :
        a # b => FuzzyWrites[a].target # FuzzyWrites[b].target

\* C28: within one fuzzy-strategy run each legacy job is written to at most one job
\* row, a loaded row of its own normalised title, so two legacy jobs whose
\* normalised titles differ are written to two distinct rows
C28_DistinctTitlesDistinctTargets ==
    /\ \A a, b \in DOMAIN FuzzyWrites :
          a < b => FuzzyWrites[a].record < FuzzyWrites[b].record
    /\ \A a \in DOMAIN FuzzyWrites :
          \E i \in DOMAIN allSupabaseJobs :
             /\ allSupabaseJobs[i].id = FuzzyWrites[a].target
             /\ normalizeString(allSupabaseJobs[i].title) = WrittenFor(FuzzyWrites[a])
    /\ \A a, b \in DOMAIN FuzzyWrites :
          WrittenFor(FuzzyWrites[a]) # WrittenFor(FuzzyWrites[b])
             => FuzzyWrites[a].target # FuzzyWrites[b].target

\* a run has ended after writing two rows for two legacy jobs of different titles
C28_Witness ==
    /\ Len(runLog) = 1 /\ runLog[1].script = "posters" /\ runLog[1].exit = 0
    /\ Len(FuzzyWrites) = 2
    /\ WrittenFor(FuzzyWrites[1]) # WrittenFor(FuzzyWrites[2])
    /\ FuzzyWrites[1].target # FuzzyWrites[2].target

\* a run has ended after writing one row for two legacy jobs of one title and of
\* different employers: the row is left with the employer of the later one
LaterLegacyJobOverwrote ==
    /\ Len(runLog) = 1 /\ runLog[1].script = "posters" /\ runLog[1].exit = 0
    /\ Len(FuzzyWrites) = 2
    /\ FuzzyWrites[1].target = FuzzyWrites[2].target
    /\ FuzzyWrites[1].value # FuzzyWrites[2].value
    /\ \E j \in jobs : j.id = FuzzyWrites[1].target /\ j.employer_id = FuzzyWrites[2].value

(***************************************************************************)
(* The lookup caches of the two reconcilers                                *)
(***************************************************************************)
\* legacy jobs of user 3 (as a number and, in the meta key, as a string), of
\* user 4 and of a user without profile
CacheJobs ==
    { DirectJob(Num(3), NULL),
      DirectJob(Num(9), Str(3)),
      DirectJob(NULL, Num(4)),
      DirectJob(Num(9), NULL) }

\* mapping entries for legacy job 11: one e-mail written two ways, another
\* e-mail, and one that no profile has
CacheMappings ==
    { MappingEntry(Num(11), EmailB),
      MappingEntry(Num(11), EmailBUpper),
      MappingEntry(Num(11), EmailC),
      MappingEntry(Num(11), EmailUnknown) }

\* the placeholder employer alone; with two profiles that both record legacy user
\* 3 and one e-mail; with profiles of legacy users 3 and 4
CacheProfileTables ==
    { {ProfileRow(DefaultEmployerRow)} \cup ps :
        ps \in { {},
                 {DirectProfile(1, EmailB, Str(3)), DirectProfile(2, EmailBMessy, Str(3))},
                 {DirectProfile(1, EmailB, Str(3)), DirectProfile(3, EmailC, Str(4))} } }

InitCache ==
    /\ usersFile = File(<<>>)
    /\ plan \in {<<"posters">>, <<"email">>}
    /\ jobsFile \in IF plan[1] = "posters"
                    THEN {File(js) : js \in SeqsUpTo(CacheJobs, MaxJobs)} \cup {BadFile}
                    ELSE {File(<<>>)}
    /\ mappingFile \in IF plan[1] = "email"
                       THEN {File(ms) : ms \in SeqsUpTo(CacheMappings, MaxJobs)} \cup {BadFile}
                       ELSE {File(<<>>)}
    /\ faults \in BOOLEAN
    /\ hasPosterId \in BOOLEAN
    /\ plan[1] = "email" => hasPosterId
    /\ profiles \in CacheProfileTables
    /\ jobs = {[DbJob(1, DbUniverse[1]) EXCEPT !.wordpress_job_id = Num(11)]}
    /\ NoRun

NextCache ==
    \/ PostersStart \/ PostersJob \/ PostersSummary
    \/ EmailStart \/ EmailJob \/ EmailSummary

SpecCache == InitCache /\ [][NextCache]_vars

\* the first element of s whose index is in hits, or NULL when there is none
FirstOf(s, hits) ==
    IF hits = {} THEN NULL
    ELSE s[CHOOSE i \in hits : \A j \in hits : i <= j].id

\* a scan of the loaded profiles for a legacy user id, whatever was looked up
\* before: the first profile whose wordpress_user_id is the id's decimal text
ScanByWordPressId(w) ==
    IF w = NULL \/ w = EmptyStr \/ w = Num(0) THEN NULL
    ELSE FirstOf(allProfiles, {i \in DOMAIN allProfiles :
                                  allProfiles[i].wordpress_user_id = Str(w[2])})

\* a scan of the loaded profiles for an e-mail, compared without case and without
\* the whitespace around it
ScanByEmail(e) ==
    IF e = NULL \/ e = EmptyStr THEN NULL
    ELSE FirstOf(allProfiles, {i \in DOMAIN allProfiles :
                                  /\ allProfiles[i].email \notin {NULL, EmptyStr}
                                  /\ Trim(ToLowerCase(allProfiles[i].email))
                                        = Trim(ToLowerCase(e))})

\* the pass just made looked a profile up
LookedUp == last.kind = "job" /\ last.outcome \in {"updated", "error"}

\* C29: the lookup caches are transparent: every lookup of a run returns what a
\* scan of the loaded profiles returns for its key, the id of the first loaded
\* profile that matches or null, and the map holds nothing but such results,
\* whatever was looked up before and whether the legacy id is a number or a string
C29_CachesTransparent ==
    /\ (script = "posters" /\ LookedUp)
          => last.employerUuid = ScanByWordPressId(last.wpEmployerId)
    /\ (script = "email" /\ LookedUp)
          => last.employerUuid = ScanByEmail(last.mapping.employer_email)
    /\ script = "posters" => \A e \in cacheMap : e[2] = ScanByWordPressId(e[1])
    /\ script = "email" => \A e \in cacheMap : e[2] = ScanByEmail(e[1])

\* the second of two legacy jobs of one employer was answered from the map, with
\* two loaded profiles recording that employer
C29_Witness ==
    /\ script = "posters" /\ LookedUp /\ idx = 2
    /\ getEmployerId(work[1]) = getEmployerId(work[2])
    /\ stats.updated + stats.errors = 2 /\ stats.usedPlaceholder = 0
    /\ Cardinality(cacheMap) = 1
    /\ Cardinality({i \in DOMAIN allProfiles :
                       allProfiles[i].wordpress_user_id = Str(3)}) = 2

\* one legacy user looked up as a number and then as a string: two entries
C29_WitnessBothForms ==
    /\ script = "posters" /\ LookedUp /\ idx = 2
    /\ getEmployerId(work[1]) = Num(3) /\ getEmployerId(work[2]) = Str(3)
    /\ cacheMap = {<<Num(3), last.employerUuid>>, <<Str(3), last.employerUuid>>}

\* one e-mail looked up twice, written two ways: the second answered from the map
C29_WitnessEmail ==
    /\ script = "email" /\ LookedUp /\ idx = 2
    /\ work[1].employer_email # work[2].employer_email
    /\ stats.updated + stats.errors = 2 /\ stats.usedPlaceholder = 0
    /\ Cardinality(cacheMap) = 1

(***************************************************************************)
(* Termination of a run                                                    *)
(***************************************************************************)
\* one run of a loader or of a reconciler, over the users of ReloadUsers, the
\* legacy jobs of CacheJobs and the mapping entries of CacheMappings
TermPlans == {<<"bulk">>, <<"upload">>, <<"import">>, <<"posters">>, <<"email">>, <<"wpids">>}

\* no job row, or the row the legacy jobs match and one of another title: a full
\* page and an empty one
TermJobTables ==
    { {},
      {[DbJob(1, DbUniverse[1]) EXCEPT !.wordpress_job_id = Num(11)],
       [DbJob(2, DbUniverse[3]) EXCEPT !.wordpress_job_id = Num(12)]} }

\* the placeholder employer with profiles of legacy users 3 and 4: a full page and
\* a page of one row
TermProfiles ==
    {ProfileRow(DefaultEmployerRow)}
    \cup {DirectProfile(1, EmailB, Str(3)), DirectProfile(3, EmailC, Str(4))}

InitTerm ==
    /\ plan \in TermPlans
    /\ usersFile \in IF plan[1] \in {"bulk", "upload", "wpids"}
                     THEN {File(us) : us \in SeqsUpTo(ReloadUsers, MaxUsers)} \cup {BadFile}
                     ELSE {File(<<>>)}
    /\ jobsFile \in IF plan[1] \in {"import", "posters"}
                    THEN {File(js) : js \in SeqsUpTo(CacheJobs, MaxJobs)} \cup {BadFile}
                    ELSE {File(<<>>)}
    /\ mappingFile \in IF plan[1] = "email"
                       THEN {File(ms) : ms \in SeqsUpTo(CacheMappings, MaxJobs)} \cup {BadFile}
                       ELSE {File(<<>>)}
    /\ faults \in BOOLEAN
    /\ faults => Len(usersFile.rows) + Len(jobsFile.rows) + Len(mappingFile.rows)
                     <= MaxFaultyRecords
    /\ hasPosterId \in BOOLEAN
    /\ plan[1] # "posters" => hasPosterId
    /\ profiles = TermProfiles
    /\ jobs \in TermJobTables
    /\ NoRun

NextTerm ==
    \/ BulkStart \/ BulkBatch \/ BulkSummary
    \/ UploadStart \/ UploadUser \/ UploadSummary
    \/ ImportStart \/ ImportJob \/ ImportSummary
    \/ PostersStart \/ PostersJob \/ PostersSummary
    \/ EmailStart \/ EmailJob \/ EmailSummary
    \/ WpidsStart \/ WpidsUpdate \/ WpidsSummary

SpecTerm == InitTerm /\ [][NextTerm]_vars

\* the store answers every request and node runs every continuation that is
\* ready: a step that can be taken is taken
SpecTermFair == SpecTerm /\ WF_vars(NextTerm)

\* the run has ended, with its summary or with a fatal exit: its exit status is
\* logged and no script is running
RunEnded ==
    /\ script = "idle" /\ plan = <<>>
    /\ Len(runLog) = 1 /\ runLog[1].exit \in {0, 1}

\* the page reads of one table load are not more than the full pages of the
\* table and one more
FinitelyManyPages(load, table) ==
    Len(load.requests) <= Cardinality(table) \div pageSize + 1

\* a step of a running script leaves the count of records done or adds one, and
\* never goes past the end of the list
VisitsInOrder ==
    script # "idle" => /\ idx' \in {idx, idx + 1}
                       /\ script' # "idle" => script' = script

\* C30: every loader and reconciler run terminates: with a store that answers
\* every request the run reaches its summary or a fatal exit; a table load asks
\* finitely many pages, and the loop over the input advances one record at a time,
\* so no record is visited twice
C30_EveryRunTerminates ==
    /\ <>[]RunEnded
    /\ [](FinitelyManyPages(pageLog.profiles, profiles)
          /\ FinitelyManyPages(pageLog.jobs, jobs))
    /\ [][VisitsInOrder]_vars

\* a reconciler run has ended with its summary after three page reads and two
\* records
C30_Witness ==
    /\ RunEnded /\ runLog[1].script \in {"posters", "email"} /\ runLog[1].exit = 0
    /\ Len(work) = 2 /\ idx = 2
    /\ Len(pageLog.profiles.requests) = 2 /\ Len(pageLog.jobs.requests) = 2

\* a loader run has ended with a fatal exit and another with its summary
C30_WitnessFatal ==
    /\ RunEnded /\ runLog[1].script = "bulk" /\ runLog[1].exit = 1
    /\ ~usersFile.ok

C30_WitnessLoader ==
    /\ RunEnded /\ runLog[1].script = "bulk" /\ runLog[1].exit = 0
    /\ idx = TotalBatches(usersFile.rows) /\ idx >= 2

====
